---------------------------- MODULE Spec2Model ----------------------------
(***************************************************************************)
(* A model of the JSON engine of p64_utils (cy_p64_cJSON.c): the number    *)
(* and string codecs, the recursive-descent parser, the printer, the tree  *)
(* of nodes with its ownership rules and the mutation API.                 *)
(*                                                                         *)
(* Texts are sequences of byte values; a pointer into a text is a 1-based  *)
(* index, the terminating NUL sits at index Len(text)+1 and NULL is 0.     *)
(* Integers wider than 31 bits are kept as little-endian limbs of 16 bits. *)
(***************************************************************************)
EXTENDS Integers, Sequences, FiniteSets, TLC

VARIABLES
    \* parse_number on one literal
    numText, numPc, numItem, numEnd,
    \* utf16_literal_to_utf8 on one escape sequence
    utfText, utfPc, utfOut, utfRet, utfErr, utfGarbage,
    \* the application's heap of nodes, the last API call made on it, and for
    \* each node cell the node its content was copied from by create_reference
    mem, op, refOf,
    \* a parse call: the text and the options, the caller's position, the
    \* tree returned, the caller's return_parse_end, the last-error slot, the
    \* number of parse calls so far; the printed tree and the tree parsed from
    \* it; the number of items added to a built tree
    pText, pRpe, pRnt, pPc, pRoot, pEnd, global_ep, calls, pPrinted, pRoot2, edits,
    \* cy_p64_cJSON_Minify: the text in the buffer and what memory holds behind
    \* its terminator, what a first and a second call leave
    minText, minBeyond, minPc, minOut, minAgain,
    \* a call of a printing entry point on the tree at pRoot: the function and
    \* its arguments, and what it returned
    prCall, prRet,
    \* the number of calls the application of SpecOwn, SpecHeap or SpecFree
    \* has made
    steps,
    \* the allocator's pool, the pointers the application was handed and has
    \* not passed to cy_p64_free, and the last call of the allocator
    pool, held, hcall

numVars == <<numText, numPc, numItem, numEnd>>
utfVars == <<utfText, utfPc, utfOut, utfRet, utfErr, utfGarbage>>
treeVars == <<mem, op, refOf>>
parseVars == <<pText, pRpe, pRnt, pPc, pRoot, pEnd, global_ep, calls, pPrinted,
               pRoot2, edits>>
minVars == <<minText, minBeyond, minPc, minOut, minAgain>>
printVars == <<prCall, prRet>>
ownVars == <<steps>>
heapVars == <<pool, held, hcall>>
vars == <<numVars, utfVars, treeVars, parseVars, minVars, printVars, ownVars, heapVars>>

---------------------------------------------------------------------------
(* Bytes and texts                                                         *)

ch == [ nul |-> 0, bs |-> 8, tab |-> 9, lf |-> 10, vt |-> 11, ff |-> 12,
        cr |-> 13, sp |-> 32, quote |-> 34, star |-> 42, plus |-> 43,
        comma |-> 44, minus |-> 45, dot |-> 46, slash |-> 47, zero |-> 48,
        nine |-> 57, colon |-> 58, A |-> 65, F |-> 70, lbrack |-> 91,
        bslash |-> 92, rbrack |-> 93, a |-> 97, b |-> 98, e |-> 101,
        f |-> 102, l |-> 108, n |-> 110, r |-> 114, s |-> 115, t |-> 116,
        u |-> 117, x |-> 120, lbrace |-> 123, rbrace |-> 125 ]

NULL == 0

\* *p for a pointer p into a NUL-terminated text
At(text, p) == IF p >= 1 /\ p <= Len(text) THEN text[p] ELSE ch.nul

IsDigit(c) == c >= ch.zero /\ c <= ch.nine

\* the decimal digits d1 d2 ... as a text
Digits(ds) == [i \in 1..Len(ds) |-> ch.zero + ds[i]]

RECURSIVE BitAnd(_, _)
BitAnd(x, y) ==
    IF x = 0 \/ y = 0 THEN 0
    ELSE (IF x % 2 = 1 /\ y % 2 = 1 THEN 1 ELSE 0) + 2 * BitAnd(x \div 2, y \div 2)

RECURSIVE BitOr(_, _)
BitOr(x, y) ==
    IF x = 0 THEN y
    ELSE IF y = 0 THEN x
    ELSE (IF x % 2 = 1 \/ y % 2 = 1 THEN 1 ELSE 0) + 2 * BitOr(x \div 2, y \div 2)

---------------------------------------------------------------------------
(* 64-bit and 32-bit integers as limbs                                     *)

LimbBase == 256 * 256
LimbMax == LimbBase - 1
Zero64 == <<0, 0, 0, 0>>
\* UINT32_MAX as a uint32_t
UINT32_MAX == <<LimbMax, LimbMax>>
\* the magnitudes of LLONG_MAX and LLONG_MIN
LLONG_MAX_mag == <<LimbMax, LimbMax, LimbMax, (LimbBase \div 2) - 1>>
LLONG_MIN_mag == <<0, 0, 0, LimbBase \div 2>>

\* mag * 10 + d, as five limbs (the fifth is the carry out of 64 bits)
MulAdd10(mag, d) ==
    LET l1 == mag[1] * 10 + d
        l2 == mag[2] * 10 + (l1 \div LimbBase)
        l3 == mag[3] * 10 + (l2 \div LimbBase)
        l4 == mag[4] * 10 + (l3 \div LimbBase)
    IN  <<l1 % LimbBase, l2 % LimbBase, l3 % LimbBase, l4 % LimbBase, l4 \div LimbBase>>

\* whether a five-limb magnitude is outside long long for the given sign
OutOfRange(m5, neg) ==
    \/ m5[5] > 0
    \/ m5[4] > LimbBase \div 2
    \/ m5[4] = LimbBase \div 2 /\ (~neg \/ m5[1] # 0 \/ m5[2] # 0 \/ m5[3] # 0)

IsSpace(c) == c \in {ch.sp, ch.tab, ch.lf, ch.vt, ch.ff, ch.cr}

RECURSIVE SkipSpace(_, _)
SkipSpace(text, p) == IF IsSpace(At(text, p)) THEN SkipSpace(text, p + 1) ELSE p

\* the digit loop of strtoll: accumulates with saturation, consumes every digit
RECURSIVE strtoll_digits(_, _, _, _, _)
strtoll_digits(text, p, neg, mag, ovf) ==
    IF ~IsDigit(At(text, p))
    THEN [mag |-> IF ovf THEN (IF neg THEN LLONG_MIN_mag ELSE LLONG_MAX_mag) ELSE mag,
          end |-> p]
    ELSE LET m5 == MulAdd10(mag, At(text, p) - ch.zero)
             o  == ovf \/ OutOfRange(m5, neg)
         IN  strtoll_digits(text, p + 1, neg,
                            IF o THEN Zero64 ELSE <<m5[1], m5[2], m5[3], m5[4]>>, o)

\* strtoll(input, &after_end, 10): [neg, mag, end]; end = input when no digits
strtoll(text, input) ==
    LET p0   == SkipSpace(text, input)
        sgn  == At(text, p0) \in {ch.minus, ch.plus}
        neg  == At(text, p0) = ch.minus
        p1   == IF sgn THEN p0 + 1 ELSE p0
    IN  IF ~IsDigit(At(text, p1))
        THEN [neg |-> FALSE, mag |-> Zero64, end |-> input]
        ELSE LET r == strtoll_digits(text, p1, neg, Zero64, FALSE)
             IN  [neg |-> neg /\ r.mag # Zero64, mag |-> r.mag, end |-> r.end]

\* the type tags of cy_p64_cJSON.h
cJSON_False == 0
cJSON_True == 1
cJSON_NULL == 2
cJSON_Number == 4
cJSON_String == 8
cJSON_Array == 16
cJSON_Object == 32
cJSON_Raw == 64
cJSON_IsReference == 256
cJSON_StringIsConst == 512

\* number >= UINT32_MAX, for a long long number
GeUint32Max(num) ==
    ~num.neg /\ (num.mag[3] # 0 \/ num.mag[4] # 0
                 \/ (num.mag[1] = LimbMax /\ num.mag[2] = LimbMax))

\* a parse_number that converts without saturating (the value modulo 2^32)
parse_number_wrap(item, text, input) ==
    LET num == strtoll(text, input)
    IN  IF input = NULL \/ num.end = input
        THEN [ret |-> NULL, item |-> item]
        ELSE [ret |-> num.end,
              item |-> [item EXCEPT !.type = cJSON_Number,
                                    !.valueint = <<num.mag[1], num.mag[2]>>]]

\* parse_number: [ret: the pointer returned, item: the item afterwards]
parse_number(item, text, input) ==
    LET num == strtoll(text, input)
    IN  IF input = NULL \/ num.end = input
        THEN [ret |-> NULL, item |-> item]
        ELSE [ret |-> num.end,
              item |-> [item EXCEPT
                  !.type = cJSON_Number,
                  !.valueint = IF GeUint32Max(num) THEN UINT32_MAX
                               ELSE IF num.neg \/ num.mag = Zero64 THEN <<0, 0>>
                               ELSE <<num.mag[1], num.mag[2]>>]]

\* a zeroed node, as cy_p64_cJSON_New_Item leaves it
ZeroItem == [type |-> 0, valueint |-> <<0, 0>>, valuestring |-> NULL,
             string |-> NULL, child |-> NULL, next |-> NULL, prev |-> NULL]

---------------------------------------------------------------------------
(* The heap: nodes and strings handed out by cy_p64_cJSON_malloc           *)
(*                                                                         *)
(* A heap h holds a pool of node cells and a pool of string cells; a node  *)
(* pointer is a cell number, a string pointer is a positive cell number    *)
(* (allocated by the engine) or a negative number -k for the caller's k-th *)
(* constant string.  h.fuel is the number of allocations that still        *)
(* succeed (-1: every one a free cell exists for); h.log lists the blocks  *)
(* released since the log was cleared; h.fault records a release of a      *)
(* block that is not allocated or an access to a released node.            *)

\* the caller's constant strings (keys passed to the CS functions): "a", "B"
ConstStrings == << <<ch.b>> >>

EmptyHeap(nnodes, nstrs, fuel) ==
    [nodes |-> [i \in 1..nnodes |-> ZeroItem], live |-> {},
     strs |-> [i \in 1..nstrs |-> <<>>], slive |-> {},
     fuel |-> fuel, log |-> <<>>, fault |-> "none"]

MinOf(S) == CHOOSE x \in S : \A y \in S : x <= y

HasFlag(type, flag) == (type \div flag) % 2 = 1
SetFlag(type, flag) == IF HasFlag(type, flag) THEN type ELSE type + flag
ClearFlag(type, flag) == IF HasFlag(type, flag) THEN type - flag ELSE type
\* type & 0xFF
Kind(type) == type % 256

\* the bytes of the C string at a string pointer
StrBytes(h, p) == IF p > 0 THEN h.strs[p] ELSE ConstStrings[-p]

\* cy_p64_cJSON_malloc for a node: [h, p], p = NULL on failure
malloc_node(h) ==
    LET free == (DOMAIN h.nodes) \ h.live
    IN  IF h.fuel = 0 \/ free = {}
        THEN [h |-> h, p |-> NULL]
        ELSE [h |-> [h EXCEPT !.live = @ \cup {MinOf(free)},
                              !.fuel = IF @ > 0 THEN @ - 1 ELSE @],
              p |-> MinOf(free)]

\* cy_p64_cJSON_malloc for a string buffer that is then filled with bytes
malloc_str(h, bytes) ==
    LET free == (DOMAIN h.strs) \ h.slive
    IN  IF h.fuel = 0 \/ free = {}
        THEN [h |-> h, p |-> NULL]
        ELSE [h |-> [h EXCEPT !.slive = @ \cup {MinOf(free)},
                              !.strs[MinOf(free)] = bytes,
                              !.fuel = IF @ > 0 THEN @ - 1 ELSE @],
              p |-> MinOf(free)]

\* cy_p64_cJSON_free of a node
free_node(h, c) ==
    IF c \notin h.live
    THEN [h EXCEPT !.fault = "double_free", !.log = Append(@, <<"node", c>>)]
    ELSE [h EXCEPT !.live = @ \ {c}, !.nodes[c] = ZeroItem,
                   !.log = Append(@, <<"node", c>>)]

\* cy_p64_cJSON_free of a string
free_str(h, p) ==
    IF p \notin h.slive
    THEN [h EXCEPT !.fault = IF p < 0 THEN "free_of_constant" ELSE "double_free",
                   !.log = Append(@, <<"str", p>>)]
    ELSE [h EXCEPT !.slive = @ \ {p}, !.strs[p] = <<>>,
                   !.log = Append(@, <<"str", p>>)]

\* cy_p64_cJSON_strdup of a non-NULL C string
cJSON_strdup(h, bytes) == malloc_str(h, bytes)

\* cy_p64_cJSON_New_Item: [h, p]
cJSON_New_Item(h) ==
    LET r == malloc_node(h)
    IN  IF r.p = NULL THEN r
        ELSE [h |-> [r.h EXCEPT !.nodes[r.p] = ZeroItem], p |-> r.p]

\* a cy_p64_cJSON_Delete that follows reference nodes like owned ones
RECURSIVE cJSON_Delete_noref(_, _)
cJSON_Delete_noref(h, c) ==
    IF c = NULL THEN h
    ELSE IF c \notin h.live THEN [h EXCEPT !.fault = "use_after_free"]
    ELSE LET next == h.nodes[c].next
             h1 == IF h.nodes[c].child # NULL
                   THEN cJSON_Delete_noref(h, h.nodes[c].child) ELSE h
             h2 == IF h1.nodes[c].valuestring # NULL
                   THEN free_str(h1, h1.nodes[c].valuestring) ELSE h1
             h3 == IF ~HasFlag(h2.nodes[c].type, cJSON_StringIsConst)
                      /\ h2.nodes[c].string # NULL
                   THEN free_str(h2, h2.nodes[c].string) ELSE h2
         IN  cJSON_Delete_noref(free_node(h3, c), next)

\* cy_p64_cJSON_Delete
RECURSIVE cJSON_Delete(_, _)
cJSON_Delete(h, c) ==
    IF c = NULL THEN h
    ELSE IF c \notin h.live THEN [h EXCEPT !.fault = "use_after_free"]
    ELSE LET next == h.nodes[c].next
             h1 == IF ~HasFlag(h.nodes[c].type, cJSON_IsReference)
                      /\ h.nodes[c].child # NULL
                   THEN cJSON_Delete(h, h.nodes[c].child) ELSE h
             h2 == IF ~HasFlag(h1.nodes[c].type, cJSON_IsReference)
                      /\ h1.nodes[c].valuestring # NULL
                   THEN free_str(h1, h1.nodes[c].valuestring) ELSE h1
             h3 == IF ~HasFlag(h2.nodes[c].type, cJSON_StringIsConst)
                      /\ h2.nodes[c].string # NULL
                   THEN free_str(h2, h2.nodes[c].string) ELSE h2
         IN  cJSON_Delete(free_node(h3, c), next)

---------------------------------------------------------------------------
(* The document model and the mutation API                                 *)

ToLower(c) == IF c >= ch.A /\ c <= ch.A + 25 THEN c + 32 ELSE c

\* cy_p64_cJSON_strcasecmp(s1, s2) == 0, for string pointers (s2 not NULL)
strcasecmp_eq(h, s1, bytes2) ==
    /\ s1 # NULL
    /\ Len(StrBytes(h, s1)) = Len(bytes2)
    /\ \A i \in 1..Len(bytes2) : ToLower(StrBytes(h, s1)[i]) = ToLower(bytes2[i])

\* while (c && which > 0) { c = c->next; which--; }
RECURSIVE WalkTo(_, _, _)
WalkTo(h, c, which) ==
    IF c # NULL /\ which > 0 THEN WalkTo(h, h.nodes[c].next, which - 1) ELSE c

\* while (child->next) child = child->next;
RECURSIVE LastOf(_, _)
LastOf(h, child) ==
    IF h.nodes[child].next # NULL THEN LastOf(h, h.nodes[child].next) ELSE child

\* the position of the first child from c on whose name matches, with the child
RECURSIVE FindName(_, _, _, _)
FindName(h, c, bytes, i) ==
    IF c # NULL /\ ~strcasecmp_eq(h, h.nodes[c].string, bytes)
    THEN FindName(h, h.nodes[c].next, bytes, i + 1)
    ELSE [c |-> c, i |-> i]

\* cy_p64_cJSON_GetArraySize: the length of the chain from c on (the pools are
\* far smaller than INT_MAX, where the count stops)
RECURSIVE CountFrom(_, _)
CountFrom(h, c) == IF c = NULL THEN 0 ELSE 1 + CountFrom(h, h.nodes[c].next)

cJSON_GetArraySize(h, array) == CountFrom(h, h.nodes[array].child)

cJSON_GetArrayItem(h, array, item) ==
    WalkTo(h, IF array # NULL THEN h.nodes[array].child ELSE NULL, item)

cJSON_GetObjectItem(h, object, bytes) ==
    FindName(h, IF object # NULL THEN h.nodes[object].child ELSE NULL, bytes, 0).c

suffix_object(h, prev, item) ==
    [h EXCEPT !.nodes[prev].next = item, !.nodes[item].prev = prev]

create_reference_keepname(h, item) ==
    LET r == cJSON_New_Item(h)
    IN  IF r.p = NULL THEN r
        ELSE [h |-> [r.h EXCEPT !.nodes[r.p] =
                        [h.nodes[item] EXCEPT
                            !.type = SetFlag(@, cJSON_IsReference),
                            !.next = NULL, !.prev = NULL]],
              p |-> r.p]

\* create_reference: [h, p]
create_reference(h, item) ==
    LET r == cJSON_New_Item(h)
    IN  IF r.p = NULL THEN r
        ELSE [h |-> [r.h EXCEPT !.nodes[r.p] =
                        [h.nodes[item] EXCEPT
                            !.string = NULL,
                            !.type = SetFlag(@, cJSON_IsReference),
                            !.next = NULL, !.prev = NULL]],
              p |-> r.p]

cJSON_AddItemToArray(h, array, item) ==
    IF item = NULL \/ array = NULL THEN h
    ELSE IF h.nodes[array].child = NULL
    THEN [h EXCEPT !.nodes[array].child = item]
    ELSE suffix_object(h, LastOf(h, h.nodes[array].child), item)

\* string is a string pointer (the caller's constant, or a fresh duplicate)
cJSON_AddItemToObjectCS(h, object, string, item) ==
    IF item = NULL THEN h
    ELSE LET h1 == IF ~HasFlag(h.nodes[item].type, cJSON_StringIsConst)
                      /\ h.nodes[item].string # NULL
                   THEN free_str(h, h.nodes[item].string) ELSE h
             h2 == [h1 EXCEPT !.nodes[item].string = string,
                              !.nodes[item].type = SetFlag(@, cJSON_StringIsConst)]
         IN  cJSON_AddItemToArray(h2, object, item)

\* bytes is the caller's key
cJSON_AddItemToObject(h, object, bytes, item) ==
    LET d == cJSON_strdup(h, bytes)
        h1 == cJSON_AddItemToObjectCS(d.h, object, d.p, item)
    IN  IF item = NULL THEN [h1 EXCEPT !.fault = "null_dereference"]
        ELSE [h1 EXCEPT !.nodes[item].type = ClearFlag(@, cJSON_StringIsConst)]

cJSON_AddItemReferenceToArray(h, array, item) ==
    LET r == create_reference(h, item)
    IN  cJSON_AddItemToArray(r.h, array, r.p)

cJSON_AddItemReferenceToObject(h, object, bytes, item) ==
    LET r == create_reference(h, item)
    IN  cJSON_AddItemToObject(r.h, object, bytes, r.p)

\* the static DetachItemFromArray: [h, p]
DetachItemFromArray(h, array, which) ==
    LET c == WalkTo(h, h.nodes[array].child, which)
    IN  IF c = NULL THEN [h |-> h, p |-> NULL]
        ELSE LET prev == h.nodes[c].prev
                 next == h.nodes[c].next
                 h1 == IF prev # NULL THEN [h EXCEPT !.nodes[prev].next = next] ELSE h
                 h2 == IF next # NULL THEN [h1 EXCEPT !.nodes[next].prev = prev] ELSE h1
                 h3 == IF c = h2.nodes[array].child
                       THEN [h2 EXCEPT !.nodes[array].child = next] ELSE h2
             IN  [h |-> [h3 EXCEPT !.nodes[c].prev = NULL, !.nodes[c].next = NULL],
                  p |-> c]

cJSON_DetachItemFromArray(h, array, which) ==
    IF which < 0 THEN [h |-> h, p |-> NULL] ELSE DetachItemFromArray(h, array, which)

cJSON_DeleteItemFromArray(h, array, which) ==
    LET d == cJSON_DetachItemFromArray(h, array, which)
    IN  cJSON_Delete(d.h, d.p)

cJSON_DetachItemFromObject(h, object, bytes) ==
    LET f == FindName(h, h.nodes[object].child, bytes, 0)
    IN  IF f.c # NULL THEN DetachItemFromArray(h, object, f.i) ELSE [h |-> h, p |-> NULL]

cJSON_DeleteItemFromObject(h, object, bytes) ==
    LET d == cJSON_DetachItemFromObject(h, object, bytes)
    IN  cJSON_Delete(d.h, d.p)

\* an InsertItemInArray that leaves the displaced item's prev as it was
cJSON_InsertItemInArray_noprev(h, array, which, newitem) ==
    LET c == WalkTo(h, h.nodes[array].child, which)
    IN  IF c = NULL THEN cJSON_AddItemToArray(h, array, newitem)
        ELSE LET h1 == [h EXCEPT !.nodes[newitem].next = c,
                                 !.nodes[newitem].prev = h.nodes[c].prev]
             IN  IF c = h1.nodes[array].child
                 THEN [h1 EXCEPT !.nodes[array].child = newitem]
                 ELSE [h1 EXCEPT !.nodes[h1.nodes[newitem].prev].next = newitem]

\* an InsertItemInArray that stops its walk one item short of which
cJSON_InsertItemInArray_short(h, array, which, newitem) ==
    LET c == WalkTo(h, h.nodes[array].child, which - 1)
    IN  IF c = NULL THEN cJSON_AddItemToArray(h, array, newitem)
        ELSE LET h1 == [h EXCEPT !.nodes[newitem].next = c,
                                 !.nodes[newitem].prev = h.nodes[c].prev,
                                 !.nodes[c].prev = newitem]
             IN  IF c = h1.nodes[array].child
                 THEN [h1 EXCEPT !.nodes[array].child = newitem]
                 ELSE [h1 EXCEPT !.nodes[h1.nodes[newitem].prev].next = newitem]

cJSON_InsertItemInArray(h, array, which, newitem) ==
    LET c == WalkTo(h, h.nodes[array].child, which)
    IN  IF c = NULL THEN cJSON_AddItemToArray(h, array, newitem)
        ELSE LET h1 == [h EXCEPT !.nodes[newitem].next = c,
                                 !.nodes[newitem].prev = h.nodes[c].prev,
                                 !.nodes[c].prev = newitem]
             IN  IF c = h1.nodes[array].child
                 THEN [h1 EXCEPT !.nodes[array].child = newitem]
                 ELSE [h1 EXCEPT !.nodes[h1.nodes[newitem].prev].next = newitem]

\* a ReplaceItemInArray that leaves the replaced item allocated
ReplaceItemInArray_keep(h, array, which, newitem) ==
    LET c == WalkTo(h, h.nodes[array].child, which)
    IN  IF c = NULL THEN h
        ELSE LET next == h.nodes[c].next
                 prev == h.nodes[c].prev
                 h1 == [h EXCEPT !.nodes[newitem].next = next,
                                 !.nodes[newitem].prev = prev]
                 h2 == IF next # NULL THEN [h1 EXCEPT !.nodes[next].prev = newitem] ELSE h1
                 h3 == IF c = h2.nodes[array].child
                       THEN [h2 EXCEPT !.nodes[array].child = newitem]
                       ELSE [h2 EXCEPT !.nodes[prev].next = newitem]
             IN  [h3 EXCEPT !.nodes[c].next = NULL, !.nodes[c].prev = NULL]

\* the static ReplaceItemInArray
ReplaceItemInArray(h, array, which, newitem) ==
    LET c == WalkTo(h, h.nodes[array].child, which)
    IN  IF c = NULL THEN h
        ELSE LET next == h.nodes[c].next
                 prev == h.nodes[c].prev
                 h1 == [h EXCEPT !.nodes[newitem].next = next,
                                 !.nodes[newitem].prev = prev]
                 h2 == IF next # NULL THEN [h1 EXCEPT !.nodes[next].prev = newitem] ELSE h1
                 h3 == IF c = h2.nodes[array].child
                       THEN [h2 EXCEPT !.nodes[array].child = newitem]
                       ELSE [h2 EXCEPT !.nodes[prev].next = newitem]
                 h4 == [h3 EXCEPT !.nodes[c].next = NULL, !.nodes[c].prev = NULL]
             IN  cJSON_Delete(h4, c)

cJSON_ReplaceItemInArray(h, array, which, newitem) ==
    IF which < 0 THEN h ELSE ReplaceItemInArray(h, array, which, newitem)

cJSON_ReplaceItemInObject(h, object, bytes, newitem) ==
    LET f == FindName(h, h.nodes[object].child, bytes, 0)
    IN  IF f.c = NULL THEN h
        ELSE LET h1 == IF ~HasFlag(h.nodes[newitem].type, cJSON_StringIsConst)
                          /\ h.nodes[newitem].string # NULL
                       THEN free_str(h, h.nodes[newitem].string) ELSE h
                 d == cJSON_strdup(h1, bytes)
                 h2 == [d.h EXCEPT !.nodes[newitem].string = d.p]
             IN  ReplaceItemInArray(h2, object, f.i, newitem)

\* the Create functions: [h, p]
CreateOfType(h, type) ==
    LET r == cJSON_New_Item(h)
    IN  IF r.p = NULL THEN r
        ELSE [h |-> [r.h EXCEPT !.nodes[r.p].type = type], p |-> r.p]

cJSON_CreateNull(h) == CreateOfType(h, cJSON_NULL)
cJSON_CreateTrue(h) == CreateOfType(h, cJSON_True)
cJSON_CreateFalse(h) == CreateOfType(h, cJSON_False)
cJSON_CreateArray(h) == CreateOfType(h, cJSON_Array)
cJSON_CreateObject(h) == CreateOfType(h, cJSON_Object)

cJSON_CreateNumber(h, num) ==
    LET r == CreateOfType(h, cJSON_Number)
    IN  IF r.p = NULL THEN r
        ELSE [h |-> [r.h EXCEPT !.nodes[r.p].valueint = num], p |-> r.p]

\* CreateString and CreateRaw: the item is deleted again when strdup fails
CreateWithString(h, type, bytes) ==
    LET r == CreateOfType(h, type)
        d == cJSON_strdup(r.h, bytes)
    IN  IF r.p = NULL THEN r
        ELSE IF d.p = NULL THEN [h |-> cJSON_Delete(d.h, r.p), p |-> NULL]
        ELSE [h |-> [d.h EXCEPT !.nodes[r.p].valuestring = d.p], p |-> r.p]

cJSON_CreateString(h, bytes) == CreateWithString(h, cJSON_String, bytes)
cJSON_CreateRaw(h, bytes) == CreateWithString(h, cJSON_Raw, bytes)

\* cy_p64_cJSON_Duplicate: [h, p]
RECURSIVE cJSON_Duplicate(_, _, _)

\* fail: the new item is deleted and NULL returned
Duplicate_fail(h, newitem) == [h |-> cJSON_Delete(h, newitem), p |-> NULL]

RECURSIVE Duplicate_children(_, _, _, _)

\* a link step that makes every new child the first child of newitem
Duplicate_link_first(d, child, newitem, next) ==
    IF d.p = NULL THEN Duplicate_fail(d.h, newitem)
    ELSE Duplicate_children(
             [d.h EXCEPT !.nodes[newitem].child = d.p,
                         !.nodes[d.p].next = d.h.nodes[newitem].child],
             d.h.nodes[child].next, newitem, d.p)

\* newchild is linked behind next, or as the first child of newitem
Duplicate_link(d, child, newitem, next) ==
    IF d.p = NULL THEN Duplicate_fail(d.h, newitem)
    ELSE Duplicate_children(
             IF next # NULL
             THEN [d.h EXCEPT !.nodes[next].next = d.p, !.nodes[d.p].prev = next]
             ELSE [d.h EXCEPT !.nodes[newitem].child = d.p],
             d.h.nodes[child].next, newitem, d.p)

\* the loop of cy_p64_cJSON_Duplicate over the ->next chain from child on
Duplicate_children(h, child, newitem, next) ==
    IF child = NULL THEN [h |-> h, p |-> newitem]
    ELSE Duplicate_link(cJSON_Duplicate(h, child, TRUE), child, newitem, next)

\* the copy has its strings: done when not recursive, else the children
Duplicate_rest(h, item, newitem, recurse) ==
    IF ~recurse THEN [h |-> h, p |-> newitem]
    ELSE Duplicate_children(h, h.nodes[item].child, newitem, NULL)

\* newitem->string: the pointer itself under StringIsConst, else a duplicate d
Duplicate_string(h, d, item, newitem, recurse) ==
    IF h.nodes[item].string = NULL THEN Duplicate_rest(h, item, newitem, recurse)
    ELSE IF HasFlag(h.nodes[item].type, cJSON_StringIsConst)
    THEN Duplicate_rest([h EXCEPT !.nodes[newitem].string = h.nodes[item].string],
                        item, newitem, recurse)
    ELSE IF d.p = NULL THEN Duplicate_fail(h, newitem)
    ELSE Duplicate_rest([d.h EXCEPT !.nodes[newitem].string = d.p],
                        item, newitem, recurse)

Duplicate_name(h, item, newitem, recurse) ==
    Duplicate_string(h, IF h.nodes[item].string = NULL THEN [h |-> h, p |-> NULL]
                        ELSE cJSON_strdup(h, StrBytes(h, h.nodes[item].string)),
                     item, newitem, recurse)

\* newitem->valuestring: a duplicate d of item->valuestring
Duplicate_valuestring(h, d, item, newitem, recurse) ==
    IF h.nodes[item].valuestring = NULL THEN Duplicate_name(h, item, newitem, recurse)
    ELSE IF d.p = NULL THEN Duplicate_fail(h, newitem)
    ELSE Duplicate_name([d.h EXCEPT !.nodes[newitem].valuestring = d.p],
                        item, newitem, recurse)

\* the new item with type and valueint copied over
Duplicate_vars(h, item, newitem, recurse) ==
    Duplicate_valuestring(h, IF h.nodes[item].valuestring = NULL
                             THEN [h |-> h, p |-> NULL]
                             ELSE cJSON_strdup(h, StrBytes(h, h.nodes[item].valuestring)),
                          item, newitem, recurse)

Duplicate_new(r, item, recurse) ==
    IF r.p = NULL THEN [h |-> r.h, p |-> NULL]
    ELSE Duplicate_vars([r.h EXCEPT !.nodes[r.p].type =
                                        ClearFlag(r.h.nodes[item].type, cJSON_IsReference),
                                    !.nodes[r.p].valueint = r.h.nodes[item].valueint],
                        item, r.p, recurse)

cJSON_Duplicate(h, item, recurse) ==
    IF item = NULL THEN [h |-> h, p |-> NULL]
    ELSE Duplicate_new(cJSON_New_Item(h), item, recurse)

---------------------------------------------------------------------------
(* parse_number on literals: SpecNum                                       *)

\* how many bytes are appended to a seed literal
MaxExtra == 2

\* the literals the inputs grow from: empty, a sign, and prefixes of the
\* literals next to 2^32 and 2^63
NumSeeds ==
    { <<>>, <<ch.minus>>,
      Digits(<<4, 2, 9, 4, 9, 6, 7, 2, 9>>),
      <<ch.minus>> \o Digits(<<4, 2, 9, 4, 9, 6, 7, 2, 9>>),
      Digits(<<0, 0, 4, 2, 9, 4, 9, 6, 7, 2, 9>>),
      Digits(<<9, 2, 2, 3, 3, 7, 2, 0, 3, 6, 8, 5, 4, 7, 7, 5, 8, 0>>),
      <<ch.minus>> \o Digits(<<9, 2, 2, 3, 3, 7, 2, 0, 3, 6, 8, 5, 4, 7, 7, 5, 8, 0>>) }

NumAlphabet == (ch.zero .. ch.nine) \cup {ch.dot, ch.minus}

NumIdle ==
    /\ numText = <<>>
    /\ numPc = "idle"
    /\ numItem = ZeroItem
    /\ numEnd = NULL

NumInit ==
    /\ numText \in NumSeeds
    /\ numPc = "input"
    /\ numItem = ZeroItem
    /\ numEnd = NULL

\* the caller writes one more byte of the literal
NumAppend(c) ==
    /\ numPc = "input"
    /\ \E s \in NumSeeds :
          /\ Len(s) <= Len(numText)
          /\ Len(numText) < Len(s) + MaxExtra
          /\ SubSeq(numText, 1, Len(s)) = s
    /\ numText' = Append(numText, c)
    /\ UNCHANGED <<numPc, numItem, numEnd, utfVars, treeVars, parseVars, minVars, printVars, ownVars, heapVars>>

\* parse_value's number branch on the text
NumParse ==
    /\ numPc = "input"
    /\ At(numText, 1) = ch.minus \/ IsDigit(At(numText, 1))
    /\ LET r == parse_number(ZeroItem, numText, 1)
       IN  /\ numItem' = r.item
           /\ numEnd' = r.ret
    /\ numPc' = "parsed"
    /\ UNCHANGED <<numText, utfVars, treeVars, parseVars, minVars, printVars, ownVars, heapVars>>

---------------------------------------------------------------------------
(* The string codec: parse_hex4 and utf16_literal_to_utf8                  *)

HexVal(c) ==
    IF c >= ch.zero /\ c <= ch.nine THEN c - ch.zero
    ELSE IF c >= ch.A /\ c <= ch.F THEN 10 + c - ch.A
    ELSE IF c >= ch.a /\ c <= ch.f THEN 10 + c - ch.a
    ELSE -1

\* parse_hex4(input): 0 on an invalid digit
RECURSIVE parse_hex4_loop(_, _, _, _)
parse_hex4_loop(text, input, i, h) ==
    IF i = 4 THEN h
    ELSE IF HexVal(At(text, input + i)) < 0 THEN 0
    ELSE LET h1 == h + HexVal(At(text, input + i))
         IN  parse_hex4_loop(text, input, i + 1, IF i < 3 THEN h1 * 16 ELSE h1)

parse_hex4(text, input) == parse_hex4_loop(text, input, 0, 0)

firstByteMark == <<0, 0, 192, 224, 240>>

\* the surrogate arithmetic of utf16_literal_to_utf8 on the code units read
utf16_combine(text, first_sequence, input_end, first_code, second_code) ==
    IF (input_end - first_sequence) < 6
    THEN [ok |-> FALSE, codepoint |-> 0, sequence_length |-> 0]
    ELSE IF (first_code >= 56320 /\ first_code <= 57343) \/ first_code = 0
    THEN [ok |-> FALSE, codepoint |-> 0, sequence_length |-> 0]
    ELSE IF first_code >= 55296 /\ first_code <= 56319
    THEN IF (input_end - (first_sequence + 6)) < 6
         THEN [ok |-> FALSE, codepoint |-> 0, sequence_length |-> 0]
         ELSE IF At(text, first_sequence + 6) # ch.bslash
                 \/ At(text, first_sequence + 7) # ch.u
         THEN [ok |-> FALSE, codepoint |-> 0, sequence_length |-> 0]
         ELSE IF second_code < 56320 \/ second_code > 57343
         THEN [ok |-> FALSE, codepoint |-> 0, sequence_length |-> 0]
         ELSE [ok |-> TRUE,
               codepoint |-> 65536 + BitOr(BitAnd(first_code, 1023) * 1024,
                                           BitAnd(second_code, 1023)),
               sequence_length |-> 12]
    ELSE [ok |-> TRUE, codepoint |-> first_code, sequence_length |-> 6]

\* the codepoint and lengths of the literal at first_sequence, or a failure
utf16_decode(text, first_sequence, input_end) ==
    utf16_combine(text, first_sequence, input_end,
                  parse_hex4(text, first_sequence + 2),
                  parse_hex4(text, first_sequence + 8))

utf8_length_of(codepoint) ==
    IF codepoint < 128 THEN 1
    ELSE IF codepoint < 2048 THEN 2
    ELSE IF codepoint < 65536 THEN 3
    ELSE IF codepoint <= 1114111 THEN 4
    ELSE 0

\* the bytes the encoding switch leaves in (*output_pointer)[0 .. utf8_length-1]:
\* each case stores one byte and breaks, the other bytes keep what the
\* freshly allocated buffer held (garbage[i])
utf8_store(codepoint, utf8_length, garbage) ==
    [i \in 1..utf8_length |->
        IF utf8_length > 1 /\ i = utf8_length
        THEN BitAnd(BitOr(codepoint, 128), 191)
        ELSE IF utf8_length = 1
        THEN BitAnd(BitOr(codepoint, firstByteMark[utf8_length + 1]), 255)
        ELSE garbage[i]]

\* the encoding half of utf16_literal_to_utf8, d the decoded literal
utf16_encode(d, input_pointer, out, err, garbage) ==
    IF ~d.ok \/ utf8_length_of(d.codepoint) = 0
    THEN [ret |-> 0, out |-> out, err |-> input_pointer]
    ELSE [ret |-> d.sequence_length,
          out |-> out \o utf8_store(d.codepoint, utf8_length_of(d.codepoint), garbage),
          err |-> err]

\* a utf16_literal_to_utf8 that fails without setting *error_pointer
utf16_literal_to_utf8_noerr(text, input_pointer, input_end, out, err, garbage) ==
    utf16_encode(utf16_decode(text, input_pointer, input_end), err, out, err, garbage)

\* utf16_literal_to_utf8: [ret: sequence_length or 0, out: the output with the
\* bytes appended, err: *error_pointer afterwards]
utf16_literal_to_utf8(text, input_pointer, input_end, out, err, garbage) ==
    utf16_encode(utf16_decode(text, input_pointer, input_end), input_pointer,
                 out, err, garbage)

---------------------------------------------------------------------------
(* utf16_literal_to_utf8 on escape sequences: SpecUtf                      *)

HexDigit(d, upper) ==
    IF d < 10 THEN ch.zero + d ELSE (IF upper THEN ch.A ELSE ch.a) + d - 10

\* \uXXXX for a code unit
Escape(unit, upper) ==
    <<ch.bslash, ch.u, HexDigit(unit \div 4096, upper), HexDigit((unit \div 256) % 16, upper),
      HexDigit((unit \div 16) % 16, upper), HexDigit(unit % 16, upper)>>

\* code units at the edges of the UTF-8 length classes and of the surrogates
FirstUnits == {0, 1, 65, 127, 128, 233, 2047, 2048, 8364, 55295, 55296, 55357,
               56319, 56320, 57343, 57344, 65535}
SecondUnits == {65, 55296, 56319, 56320, 56832, 57343, 57344}

\* what follows the first escape before the closing quote
UtfTails ==
    {<<>>, <<ch.a, ch.b>>, <<ch.x, ch.x, ch.x, ch.x, ch.x, ch.x>>,
     <<ch.bslash, ch.n, ch.a, ch.a, ch.a, ch.a>>}
    \cup {Escape(v, up) : v \in SecondUnits, up \in BOOLEAN}

\* what the bytes of a fresh allocation may hold
GarbageBytes == {0, 65, 195}

UtfIdle ==
    /\ utfText = <<>>
    /\ utfPc = "idle"
    /\ utfOut = <<>>
    /\ utfRet = 0
    /\ utfErr = NULL
    /\ utfGarbage = 0

UtfInit ==
    /\ \E v \in FirstUnits, up \in BOOLEAN, tail \in UtfTails :
          utfText = Escape(v, up) \o tail
    /\ utfPc = "start"
    /\ utfOut = <<>>
    /\ utfRet = 0
    /\ utfErr = NULL
    /\ utfGarbage \in GarbageBytes

\* the conversion of the literal at the start of the text, the text's end
\* being the closing quote
UtfConvert ==
    /\ utfPc = "start"
    /\ LET r == utf16_literal_to_utf8(utfText, 1, Len(utfText) + 1, <<>>, NULL,
                                      [i \in 1..4 |-> utfGarbage])
       IN  /\ utfOut' = r.out
           /\ utfRet' = r.ret
           /\ utfErr' = r.err
    /\ utfPc' = "done"
    /\ UNCHANGED <<utfText, utfGarbage, numVars, treeVars, parseVars, minVars, printVars, ownVars, heapVars>>

---------------------------------------------------------------------------
(* The parser                                                              *)
(*                                                                         *)
(* A parse function gets the heap h, the text, the heap cell of the item   *)
(* it fills, its position in the text and the value of *error_pointer; it  *)
(* gives [h, end, ep]: the heap it leaves, the position after what it      *)
(* parsed (NULL on failure) and *error_pointer.                            *)

\* a skip that skips nothing
skip_none(text, in) == in

\* skip: past whitespace and control characters
RECURSIVE skip(_, _)
skip(text, in) ==
    IF in # NULL /\ At(text, in) # ch.nul /\ At(text, in) <= 32
    THEN skip(text, in + 1) ELSE in

\* !strncmp(input, literal, Len(literal))
strncmp_eq(text, input, literal) ==
    \A i \in 1..Len(literal) : At(text, input + i - 1) = literal[i]

\* the loop of parse_string that looks for the closing quote; input_end is
\* NULL when the text ends right after a backslash
RECURSIVE scan_string(_, _)
scan_string(text, input_end) ==
    IF At(text, input_end) = ch.quote \/ At(text, input_end) = ch.nul
    THEN input_end
    ELSE IF At(text, input_end) = ch.bslash
    THEN IF At(text, input_end + 1) = ch.nul THEN NULL
         ELSE scan_string(text, input_end + 2)
    ELSE scan_string(text, input_end + 1)

\* the escapes of one character
SimpleEscape(c) ==
    IF c = ch.b THEN ch.bs
    ELSE IF c = ch.f THEN ch.ff
    ELSE IF c = ch.n THEN ch.lf
    ELSE IF c = ch.r THEN ch.cr
    ELSE IF c = ch.t THEN ch.tab
    ELSE IF c = ch.quote \/ c = ch.bslash \/ c = ch.slash THEN c
    ELSE -1

\* the loop of parse_string that copies and unescapes: [ok, out, err]
RECURSIVE unescape(_, _, _, _, _, _)

\* case 'u' of the loop, r what utf16_literal_to_utf8 returned
unescape_utf16(text, input_pointer, input_end, out, garbage, r) ==
    IF r.ret = 0 THEN [ok |-> FALSE, out |-> out, err |-> r.err]
    ELSE unescape(text, input_pointer + r.ret, input_end, r.out, r.err, garbage)

unescape(text, input_pointer, input_end, out, err, garbage) ==
    IF input_pointer >= input_end THEN [ok |-> TRUE, out |-> out, err |-> err]
    ELSE IF At(text, input_pointer) # ch.bslash
    THEN unescape(text, input_pointer + 1, input_end,
                  Append(out, At(text, input_pointer)), err, garbage)
    ELSE IF SimpleEscape(At(text, input_pointer + 1)) >= 0
    THEN unescape(text, input_pointer + 2, input_end,
                  Append(out, SimpleEscape(At(text, input_pointer + 1))), err, garbage)
    ELSE IF At(text, input_pointer + 1) = ch.u
    THEN unescape_utf16(text, input_pointer, input_end, out, garbage,
             utf16_literal_to_utf8(text, input_pointer, input_end, out, err, garbage))
    ELSE [ok |-> FALSE, out |-> out, err |-> input_pointer]

\* the C string a buffer holds: its bytes up to the first NUL
RECURSIVE CStr(_)
CStr(bytes) ==
    IF bytes = <<>> \/ Head(bytes) = ch.nul THEN <<>>
    ELSE <<Head(bytes)>> \o CStr(Tail(bytes))

\* parse_string once the closing quote is found: a the allocation of the
\* output, u the unescaped copy
parse_string_copy(h, text, item, input_end, ep, a, u) ==
    IF input_end = NULL \/ At(text, input_end) = ch.nul
    THEN [h |-> h, end |-> NULL, ep |-> ep]
    ELSE IF a.p = NULL THEN [h |-> h, end |-> NULL, ep |-> ep]
    ELSE IF ~u.ok THEN [h |-> free_str(a.h, a.p), end |-> NULL, ep |-> u.err]
    ELSE [h |-> [a.h EXCEPT !.strs[a.p] = CStr(u.out),
                            !.nodes[item].type = cJSON_String,
                            !.nodes[item].valuestring = a.p],
          end |-> input_end + 1, ep |-> u.err]

parse_string(h, text, item, input, ep, garbage) ==
    IF At(text, input) # ch.quote THEN [h |-> h, end |-> NULL, ep |-> input]
    ELSE parse_string_copy(h, text, item, scan_string(text, input + 1), ep,
             malloc_str(h, <<>>),
             unescape(text, input + 1, scan_string(text, input + 1), <<>>, ep, garbage))

Literal_null == <<ch.n, ch.u, ch.l, ch.l>>
Literal_false == <<ch.f, ch.a, ch.l, ch.s, ch.e>>
Literal_true == <<ch.t, ch.r, ch.u, ch.e>>

RECURSIVE parse_value(_, _, _, _, _, _)
RECURSIVE array_elements(_, _, _, _, _, _, _)
RECURSIVE object_members(_, _, _, _, _, _, _)

\* a parse_array that forgets the items it has linked when it fails
parse_array_leak(h, text, item, input, ep, garbage) ==
    IF At(text, input) # ch.lbrack THEN [h |-> h, end |-> NULL, ep |-> input]
    ELSE IF At(text, skip(text, input + 1)) = ch.rbrack
    THEN [h |-> [h EXCEPT !.nodes[item].type = cJSON_Array,
                          !.nodes[item].child = NULL],
          end |-> skip(text, input + 1) + 1, ep |-> ep]
    ELSE LET r == array_elements(h, text, NULL, NULL, skip(text, input + 1) - 1,
                                 ep, garbage)
         IN  IF r.input = NULL
             THEN [h |-> r.h, end |-> NULL, ep |-> r.ep]
             ELSE [h |-> [r.h EXCEPT !.nodes[item].type = cJSON_Array,
                                    !.nodes[item].child = r.head],
                   end |-> r.input + 1, ep |-> r.ep]

\* the end of parse_array, r what the loop over the elements left
parse_array_end(item, r) ==
    IF r.input = NULL
    THEN [h |-> IF r.head # NULL THEN cJSON_Delete(r.h, r.head) ELSE r.h,
          end |-> NULL, ep |-> r.ep]
    ELSE [h |-> [r.h EXCEPT !.nodes[item].type = cJSON_Array,
                           !.nodes[item].child = r.head],
          end |-> r.input + 1, ep |-> r.ep]

parse_array(h, text, item, input, ep, garbage) ==
    IF At(text, input) # ch.lbrack THEN [h |-> h, end |-> NULL, ep |-> input]
    ELSE IF At(text, skip(text, input + 1)) = ch.rbrack
    THEN [h |-> [h EXCEPT !.nodes[item].type = cJSON_Array,
                          !.nodes[item].child = NULL],
          end |-> skip(text, input + 1) + 1, ep |-> ep]
    ELSE parse_array_end(item,
             array_elements(h, text, NULL, NULL, skip(text, input + 1) - 1,
                            ep, garbage))

\* one turn of the loop after parse_value: new_item the element, v what
\* parse_value returned for it
array_elements_next(text, head, new_item, v, garbage) ==
    LET after == skip(text, v.end)
    IN  IF after = NULL
        THEN [h |-> v.h, head |-> head, input |-> NULL, ep |-> v.ep]
        ELSE IF At(text, after) = ch.comma
        THEN array_elements(v.h, text, head, new_item, after, v.ep, garbage)
        ELSE IF At(text, after) # ch.rbrack
        THEN [h |-> v.h, head |-> head, input |-> NULL, ep |-> after]
        ELSE [h |-> v.h, head |-> head, input |-> after, ep |-> v.ep]

\* one turn of the loop after the allocation n of the element: it is linked
\* behind current_item and parsed
array_elements_item(h, text, head, current_item, input, ep, garbage, n) ==
    IF n.p = NULL THEN [h |-> h, head |-> head, input |-> NULL, ep |-> ep]
    ELSE array_elements_next(text, IF head = NULL THEN n.p ELSE head, n.p,
             parse_value(IF head = NULL THEN n.h
                         ELSE [n.h EXCEPT !.nodes[current_item].next = n.p,
                                          !.nodes[n.p].prev = current_item],
                         text, n.p, skip(text, input + 1), ep, garbage),
             garbage)

\* the do-while loop of parse_array, input at the byte in front of the next
\* element: [h, head, input, ep], input = NULL for goto fail
array_elements(h, text, head, current_item, input, ep, garbage) ==
    array_elements_item(h, text, head, current_item, input, ep, garbage,
                        cJSON_New_Item(h))

\* the end of parse_object, r what the loop over the members left
parse_object_end(item, r) ==
    IF r.input = NULL
    THEN [h |-> IF r.head # NULL THEN cJSON_Delete(r.h, r.head) ELSE r.h,
          end |-> NULL, ep |-> r.ep]
    ELSE [h |-> [r.h EXCEPT !.nodes[item].type = cJSON_Object,
                           !.nodes[item].child = r.head],
          end |-> r.input + 1, ep |-> r.ep]

parse_object(h, text, item, input, ep, garbage) ==
    IF At(text, input) # ch.lbrace THEN [h |-> h, end |-> NULL, ep |-> input]
    ELSE IF At(text, skip(text, input + 1)) = ch.rbrace
    THEN [h |-> [h EXCEPT !.nodes[item].type = cJSON_Object,
                          !.nodes[item].child = NULL],
          end |-> skip(text, input + 1) + 1, ep |-> ep]
    ELSE parse_object_end(item,
             object_members(h, text, NULL, NULL, skip(text, input + 1) - 1,
                            ep, garbage))

\* one turn of the loop after parse_value
object_members_next(text, head, new_item, v, garbage) ==
    LET after == skip(text, v.end)
    IN  IF after = NULL
        THEN [h |-> v.h, head |-> head, input |-> NULL, ep |-> v.ep]
        ELSE IF At(text, after) = ch.comma
        THEN object_members(v.h, text, head, new_item, after, v.ep, garbage)
        ELSE IF At(text, after) # ch.rbrace
        THEN [h |-> v.h, head |-> head, input |-> NULL, ep |-> after]
        ELSE [h |-> v.h, head |-> head, input |-> after, ep |-> v.ep]

\* an object_members_name that leaves the name where parse_string put it
object_members_name_noswap(text, head, new_item, k, garbage) ==
    LET colon == skip(text, k.end)
    IN  IF colon = NULL
        THEN [h |-> k.h, head |-> head, input |-> NULL, ep |-> k.ep]
        ELSE IF At(text, colon) # ch.colon
        THEN [h |-> k.h, head |-> head, input |-> NULL, ep |-> colon]
        ELSE object_members_next(text, head, new_item,
                 parse_value(k.h, text, new_item, skip(text, colon + 1), k.ep, garbage),
                 garbage)

\* one turn of the loop after the name: k what parse_string returned
object_members_name(text, head, new_item, k, garbage) ==
    LET colon == skip(text, k.end)
        \* swap the valuestring and string, because the name was parsed
        h2 == [k.h EXCEPT !.nodes[new_item].string = k.h.nodes[new_item].valuestring,
                          !.nodes[new_item].valuestring = NULL]
    IN  IF colon = NULL
        THEN [h |-> k.h, head |-> head, input |-> NULL, ep |-> k.ep]
        ELSE IF At(text, colon) # ch.colon
        THEN [h |-> h2, head |-> head, input |-> NULL, ep |-> colon]
        ELSE object_members_next(text, head, new_item,
                 parse_value(h2, text, new_item, skip(text, colon + 1), k.ep, garbage),
                 garbage)

\* one turn of the loop after the allocation n of the member
object_members_item(h, text, head, current_item, input, ep, garbage, n) ==
    IF n.p = NULL THEN [h |-> h, head |-> head, input |-> NULL, ep |-> ep]
    ELSE object_members_name(text, IF head = NULL THEN n.p ELSE head, n.p,
             parse_string(IF head = NULL THEN n.h
                          ELSE [n.h EXCEPT !.nodes[current_item].next = n.p,
                                           !.nodes[n.p].prev = current_item],
                          text, n.p, skip(text, input + 1), ep, garbage),
             garbage)

\* the do-while loop of parse_object
object_members(h, text, head, current_item, input, ep, garbage) ==
    object_members_item(h, text, head, current_item, input, ep, garbage,
                        cJSON_New_Item(h))

parse_value(h, text, item, input, ep, garbage) ==
    IF input = NULL THEN [h |-> h, end |-> NULL, ep |-> ep]
    ELSE IF strncmp_eq(text, input, Literal_null)
    THEN [h |-> [h EXCEPT !.nodes[item].type = cJSON_NULL],
          end |-> input + 4, ep |-> ep]
    ELSE IF strncmp_eq(text, input, Literal_false)
    THEN [h |-> [h EXCEPT !.nodes[item].type = cJSON_False],
          end |-> input + 5, ep |-> ep]
    ELSE IF strncmp_eq(text, input, Literal_true)
    THEN [h |-> [h EXCEPT !.nodes[item].type = cJSON_True,
                          !.nodes[item].valueint = <<1, 0>>],
          end |-> input + 4, ep |-> ep]
    ELSE IF At(text, input) = ch.quote
    THEN parse_string(h, text, item, input, ep, garbage)
    ELSE IF At(text, input) = ch.minus \/ IsDigit(At(text, input))
    THEN LET r == parse_number(h.nodes[item], text, input)
         IN  [h |-> [h EXCEPT !.nodes[item] = r.item], end |-> r.ret, ep |-> ep]
    ELSE IF At(text, input) = ch.lbrack
    THEN parse_array(h, text, item, input, ep, garbage)
    ELSE IF At(text, input) = ch.lbrace
    THEN parse_object(h, text, item, input, ep, garbage)
    ELSE [h |-> h, end |-> NULL, ep |-> input]

\* a cy_p64_cJSON_ParseWithOpts that never looks at what follows the value
ParseWithOpts_end_lax(text, return_parse_end, require_null_terminated, c, v, end) ==
    IF v.end = NULL
    THEN [h |-> cJSON_Delete(v.h, c), c |-> NULL, ep |-> v.ep]
    ELSE [h |-> v.h, c |-> c, ep |-> IF return_parse_end THEN end ELSE v.ep]

\* cy_p64_cJSON_ParseWithOpts after parse_value: c the root item, v what
\* parse_value returned, end the position the text must end at
ParseWithOpts_end(text, return_parse_end, require_null_terminated, c, v, end) ==
    IF v.end = NULL
    THEN [h |-> cJSON_Delete(v.h, c), c |-> NULL, ep |-> v.ep]
    ELSE IF require_null_terminated /\ At(text, end) # ch.nul
    THEN [h |-> cJSON_Delete(v.h, c), c |-> NULL, ep |-> end]
    ELSE [h |-> v.h, c |-> c, ep |-> IF return_parse_end THEN end ELSE v.ep]

\* cy_p64_cJSON_ParseWithOpts after the allocation n of the root item
ParseWithOpts_value(text, return_parse_end, require_null_terminated, n, v) ==
    IF n.p = NULL THEN [h |-> n.h, c |-> NULL, ep |-> NULL]
    ELSE ParseWithOpts_end(text, return_parse_end, require_null_terminated, n.p, v,
             IF require_null_terminated THEN skip(text, v.end) ELSE v.end)

\* cy_p64_cJSON_ParseWithOpts on the text: [h, c, ep], c the tree or NULL,
\* ep what *ep holds at the return (*ep is the caller's return_parse_end
\* when one is supplied, and global_ep otherwise)
cJSON_ParseWithOpts(h, text, return_parse_end, require_null_terminated, garbage) ==
    ParseWithOpts_value(text, return_parse_end, require_null_terminated,
        cJSON_New_Item(h),
        parse_value(cJSON_New_Item(h).h, text, cJSON_New_Item(h).p, skip(text, 1),
                    NULL, garbage))

---------------------------------------------------------------------------
(* The printer, unformatted and into buffers of its own (fmt = 0, p = 0)   *)
(*                                                                         *)
(* A print function gives [ok, text]: whether it returned a string, and    *)
(* the string.                                                             *)

\* sprintf("%lu") of a value that is not 0, on its two 16-bit limbs
RECURSIVE sprintf_lu(_)
sprintf_lu(v) ==
    IF v = <<0, 0>> THEN <<>>
    ELSE LET t == (v[2] % 10) * LimbBase + v[1]
         IN  sprintf_lu(<<t \div 10, v[2] \div 10>>) \o <<ch.zero + (t % 10)>>

print_number(item) ==
    IF item.valueint = <<0, 0>> THEN [ok |-> TRUE, text |-> <<ch.zero>>]
    ELSE [ok |-> TRUE, text |-> sprintf_lu(item.valueint)]

\* an escape of control bytes with two hexadecimal digits instead of four
EscapeByte_short(c) ==
    IF c > 31 /\ c # ch.quote /\ c # ch.bslash THEN <<c>>
    ELSE IF c = ch.bslash THEN <<ch.bslash, ch.bslash>>
    ELSE IF c = ch.quote THEN <<ch.bslash, ch.quote>>
    ELSE <<ch.bslash, ch.u, HexDigit(c \div 16, FALSE), HexDigit(c % 16, FALSE)>>

\* what the copy loop of print_string_ptr writes for one byte
EscapeByte(c) ==
    IF c > 31 /\ c # ch.quote /\ c # ch.bslash THEN <<c>>
    ELSE IF c = ch.bslash THEN <<ch.bslash, ch.bslash>>
    ELSE IF c = ch.quote THEN <<ch.bslash, ch.quote>>
    ELSE IF c = ch.bs THEN <<ch.bslash, ch.b>>
    ELSE IF c = ch.ff THEN <<ch.bslash, ch.f>>
    ELSE IF c = ch.lf THEN <<ch.bslash, ch.n>>
    ELSE IF c = ch.cr THEN <<ch.bslash, ch.r>>
    ELSE IF c = ch.tab THEN <<ch.bslash, ch.t>>
    ELSE <<ch.bslash, ch.u, ch.zero, ch.zero,
           HexDigit(c \div 16, FALSE), HexDigit(c % 16, FALSE)>>

RECURSIVE EscapeBytes(_)
EscapeBytes(bytes) ==
    IF bytes = <<>> THEN <<>>
    ELSE EscapeByte(Head(bytes)) \o EscapeBytes(Tail(bytes))

\* a print_string_ptr that copies every byte as it is
print_string_ptr_plain(h, str) ==
    IF str = NULL THEN [ok |-> TRUE, text |-> <<ch.quote, ch.quote>>]
    ELSE [ok |-> TRUE, text |-> <<ch.quote>> \o StrBytes(h, str) \o <<ch.quote>>]

\* print_string_ptr of a string pointer
print_string_ptr(h, str) ==
    IF str = NULL THEN [ok |-> TRUE, text |-> <<ch.quote, ch.quote>>]
    ELSE LET bytes == StrBytes(h, str)
             flag == \E i \in DOMAIN bytes :
                        \/ bytes[i] > 0 /\ bytes[i] < 32
                        \/ bytes[i] = ch.quote
                        \/ bytes[i] = ch.bslash
         IN  IF ~flag
             THEN [ok |-> TRUE, text |-> <<ch.quote>> \o bytes \o <<ch.quote>>]
             ELSE [ok |-> TRUE,
                   text |-> <<ch.quote>> \o EscapeBytes(bytes) \o <<ch.quote>>]

RECURSIVE print_value(_, _)

\* the printed children of an array from child on, with the commas
RECURSIVE array_entries(_, _)
array_entries(h, child) ==
    LET ret == print_value(h, child)
        rest == array_entries(h, h.nodes[child].next)
    IN  IF ~ret.ok THEN [ok |-> FALSE, text |-> <<>>]
        ELSE IF h.nodes[child].next = NULL THEN ret
        ELSE [ok |-> rest.ok, text |-> ret.text \o <<ch.comma>> \o rest.text]

print_array(h, item) ==
    IF h.nodes[item].child = NULL
    THEN [ok |-> TRUE, text |-> <<ch.lbrack, ch.rbrack>>]
    ELSE LET e == array_entries(h, h.nodes[item].child)
         IN  [ok |-> e.ok, text |-> <<ch.lbrack>> \o e.text \o <<ch.rbrack>>]

\* the printed members of an object from child on: name, colon, value
RECURSIVE object_entries(_, _)
object_entries(h, child) ==
    LET str == print_string_ptr(h, h.nodes[child].string)
        ret == print_value(h, child)
        rest == object_entries(h, h.nodes[child].next)
        one == str.text \o <<ch.colon>> \o ret.text
    IN  IF ~(str.ok /\ ret.ok) THEN [ok |-> FALSE, text |-> <<>>]
        ELSE IF h.nodes[child].next = NULL THEN [ok |-> TRUE, text |-> one]
        ELSE [ok |-> rest.ok, text |-> one \o <<ch.comma>> \o rest.text]

print_object(h, item) ==
    IF h.nodes[item].child = NULL
    THEN [ok |-> TRUE, text |-> <<ch.lbrace, ch.rbrace>>]
    ELSE LET e == object_entries(h, h.nodes[item].child)
         IN  [ok |-> e.ok, text |-> <<ch.lbrace>> \o e.text \o <<ch.rbrace>>]

print_value(h, item) ==
    IF item = NULL THEN [ok |-> FALSE, text |-> <<>>]
    ELSE LET kind == Kind(h.nodes[item].type)
         IN  IF kind = cJSON_NULL THEN [ok |-> TRUE, text |-> Literal_null]
             ELSE IF kind = cJSON_False THEN [ok |-> TRUE, text |-> Literal_false]
             ELSE IF kind = cJSON_True THEN [ok |-> TRUE, text |-> Literal_true]
             ELSE IF kind = cJSON_Number THEN print_number(h.nodes[item])
             ELSE IF kind = cJSON_Raw
             THEN IF h.nodes[item].valuestring = NULL
                  THEN [ok |-> FALSE, text |-> <<>>]
                  ELSE [ok |-> TRUE, text |-> StrBytes(h, h.nodes[item].valuestring)]
             ELSE IF kind = cJSON_String
             THEN print_string_ptr(h, h.nodes[item].valuestring)
             ELSE IF kind = cJSON_Array THEN print_array(h, item)
             ELSE IF kind = cJSON_Object THEN print_object(h, item)
             ELSE [ok |-> FALSE, text |-> <<>>]

cJSON_PrintUnformatted(h, item) == print_value(h, item)

---------------------------------------------------------------------------
(* The printer into a printbuffer (p # 0), formatted or not                *)
(*                                                                         *)
(* A printbuffer is [buffer, length, offset, noalloc, data]: buffer is the *)
(* heap cell of the block (CallerBuffer for one of the caller's, NULL for  *)
(* none), data the bytes written so far in front of the terminating NUL.   *)
(* The field top is added for the claims: the number of bytes from the     *)
(* start of the block up to the last byte ever stored in it.               *)
(* A print function gets and gives r = [h, p, ok]: the heap, the           *)
(* printbuffer, and whether every call so far returned a pointer; after a  *)
(* failure nothing more is done.  Lengths stay far below INT_MAX.          *)

\* a buffer that the caller owns and that is no block of the heap
CallerBuffer == -1

\* sizeof('\0'): a character constant of C has type int
sizeof_char_constant == 4

\* an ensure that finds room in every buffer it may not reallocate
ensure_roomy(r, needed) ==
    IF r.p.buffer = NULL THEN [r EXCEPT !.ok = FALSE]
    ELSE IF needed + r.p.offset <= r.p.length \/ r.p.noalloc THEN r
    ELSE [r EXCEPT !.ok = FALSE]

\* ensure(p, needed)
ensure(r, needed) ==
    LET newbuffer == malloc_str(r.h, r.p.data)
    IN  IF r.p.buffer = NULL THEN [r EXCEPT !.ok = FALSE]
        ELSE IF needed + r.p.offset <= r.p.length THEN r
        ELSE IF r.p.noalloc THEN [r EXCEPT !.ok = FALSE]
        ELSE IF newbuffer.p = NULL
        THEN [h |-> free_str(r.h, r.p.buffer),
              p |-> [r.p EXCEPT !.length = 0, !.buffer = NULL],
              ok |-> FALSE]
        ELSE [h |-> free_str(newbuffer.h, r.p.buffer),
              p |-> [r.p EXCEPT !.buffer = newbuffer.p,
                                !.length = (needed + r.p.offset) * 2],
              ok |-> TRUE]

Max(a, b) == IF a > b THEN a ELSE b

\* the bytes stored at buffer + offset once ensure gave the pointer, written
\* bytes in all with what follows the text; offset moves by advance
store(r, bytes, advance, written) ==
    IF ~r.ok THEN r
    ELSE [r EXCEPT !.p.data = SubSeq(@, 1, r.p.offset) \o bytes,
                   !.p.top = Max(@, r.p.offset + written),
                   !.p.offset = @ + advance]

\* ensure(p, needed) and the bytes stored where it points
emit(r, needed, bytes, advance, written) ==
    IF ~r.ok THEN r ELSE store(ensure(r, needed), bytes, advance, written)

\* an update that leaves the offset where it is
update_stay(r) == r

\* p->offset = update(p): the end of the string that starts at the offset
update(r) ==
    IF ~r.ok THEN r ELSE [r EXCEPT !.p.offset = Len(r.p.data)]

Tabs(n) == [i \in 1..n |-> ch.tab]

\* print_number(item, p)
print_number_p(r, item) ==
    IF item.valueint = <<0, 0>> THEN emit(r, 2, <<ch.zero>>, 0, 2)
    ELSE emit(r, 21, sprintf_lu(item.valueint), 0, Len(sprintf_lu(item.valueint)) + 1)

\* the length print_string_ptr computes for a string with escapes
RECURSIVE escaped_len(_)
escaped_len(bytes) ==
    IF bytes = <<>> THEN 0
    ELSE escaped_len(Tail(bytes)) + 1 +
         (IF Head(bytes) \in {ch.quote, ch.bslash, ch.bs, ch.ff, ch.lf, ch.cr, ch.tab}
          THEN 1 ELSE IF Head(bytes) < 32 THEN 5 ELSE 0)

\* the flag of print_string_ptr: something needs to be escaped
needs_escape(bytes) ==
    \E i \in DOMAIN bytes : \/ bytes[i] > 0 /\ bytes[i] < 32
                            \/ bytes[i] = ch.quote
                            \/ bytes[i] = ch.bslash

\* print_string_ptr(str, p)
print_string_ptr_p(r, str) ==
    IF str = NULL THEN emit(r, 3, <<ch.quote, ch.quote>>, 0, 3)
    ELSE IF ~needs_escape(StrBytes(r.h, str))
    THEN emit(r, Len(StrBytes(r.h, str)) + 3, print_string_ptr(r.h, str).text, 0,
              Len(print_string_ptr(r.h, str).text) + 1)
    ELSE emit(r, escaped_len(StrBytes(r.h, str)) + 3, print_string_ptr(r.h, str).text, 0,
              Len(print_string_ptr(r.h, str).text) + 1)

RECURSIVE print_value_p(_, _, _, _)

\* the loop of print_array over the children from child on
RECURSIVE array_children_p(_, _, _, _)
array_children_p(r, child, depth, fmt) ==
    IF child = NULL \/ ~r.ok THEN r
    ELSE IF r.h.nodes[child].next = NULL
    THEN update(print_value_p(r, child, depth + 1, fmt))
    ELSE array_children_p(
             emit(update(print_value_p(r, child, depth + 1, fmt)),
                  IF fmt THEN 3 ELSE 2,
                  IF fmt THEN <<ch.comma, ch.sp>> ELSE <<ch.comma>>,
                  IF fmt THEN 2 ELSE 1,
                  IF fmt THEN 3 ELSE 2),
             r.h.nodes[child].next, depth, fmt)

\* print_array(item, depth, fmt, p)
print_array_p(r, item, depth, fmt) ==
    IF r.h.nodes[item].child = NULL
    THEN emit(r, 3, <<ch.lbrack, ch.rbrack>>, 0, 3)
    ELSE emit(array_children_p(emit(r, 1, <<ch.lbrack>>, 1, 1),
                               r.h.nodes[item].child, depth, fmt),
              2, <<ch.rbrack>>, 0, 2)

\* one turn of the loop of print_object: tabs, key, colon, value, comma
object_child_p(r, child, depth, fmt) ==
    emit(update(print_value_p(
             emit(update(print_string_ptr_p(
                      IF fmt THEN emit(r, depth, Tabs(depth), depth, depth) ELSE r,
                      r.h.nodes[child].string)),
                  IF fmt THEN 2 ELSE 1,
                  IF fmt THEN <<ch.colon, ch.tab>> ELSE <<ch.colon>>,
                  IF fmt THEN 2 ELSE 1,
                  IF fmt THEN 2 ELSE 1),
             child, depth, fmt)),
         (IF fmt THEN 1 ELSE 0) + (IF r.h.nodes[child].next # NULL THEN 1 ELSE 0) + 1,
         (IF r.h.nodes[child].next # NULL THEN <<ch.comma>> ELSE <<>>)
             \o (IF fmt THEN <<ch.lf>> ELSE <<>>),
         (IF fmt THEN 1 ELSE 0) + (IF r.h.nodes[child].next # NULL THEN 1 ELSE 0),
         (IF fmt THEN 1 ELSE 0) + (IF r.h.nodes[child].next # NULL THEN 1 ELSE 0) + 1)

\* the loop of print_object over the children from child on
RECURSIVE object_children_p(_, _, _, _)
object_children_p(r, child, depth, fmt) ==
    IF child = NULL \/ ~r.ok THEN r
    ELSE object_children_p(object_child_p(r, child, depth, fmt),
                           r.h.nodes[child].next, depth, fmt)

\* print_object(item, depth, fmt, p)
print_object_p(r, item, depth, fmt) ==
    IF r.h.nodes[item].child = NULL
    THEN emit(r, IF fmt THEN depth + 4 ELSE 3,
              <<ch.lbrace>> \o (IF fmt THEN <<ch.lf>> \o Tabs(depth) ELSE <<>>)
                  \o <<ch.rbrace>>, 0, IF fmt THEN depth + 4 ELSE 3)
    ELSE emit(object_children_p(
                  emit(r, IF fmt THEN 3 ELSE 2,
                       IF fmt THEN <<ch.lbrace, ch.lf>> ELSE <<ch.lbrace>>,
                       IF fmt THEN 2 ELSE 1,
                       IF fmt THEN 3 ELSE 2),
                  r.h.nodes[item].child, depth + 1, fmt),
              IF fmt THEN depth + 2 ELSE 2,
              (IF fmt THEN Tabs(depth) ELSE <<>>) \o <<ch.rbrace>>, 0,
              IF fmt THEN depth + 2 ELSE 2)

\* a Raw item without a string: the buffer is freed unless it is the caller's
print_raw_null(r) ==
    [r EXCEPT !.h = IF r.p.noalloc THEN @ ELSE free_str(@, r.p.buffer),
              !.ok = FALSE]

\* print_value(item, depth, fmt, p)
print_value_p(r, item, depth, fmt) ==
    IF ~r.ok THEN r
    ELSE IF item = NULL THEN [r EXCEPT !.ok = FALSE]
    ELSE IF Kind(r.h.nodes[item].type) = cJSON_NULL THEN emit(r, 5, Literal_null, 0, 5)
    ELSE IF Kind(r.h.nodes[item].type) = cJSON_False THEN emit(r, 6, Literal_false, 0, 6)
    ELSE IF Kind(r.h.nodes[item].type) = cJSON_True THEN emit(r, 5, Literal_true, 0, 5)
    ELSE IF Kind(r.h.nodes[item].type) = cJSON_Number
    THEN print_number_p(r, r.h.nodes[item])
    ELSE IF Kind(r.h.nodes[item].type) = cJSON_Raw
    THEN IF r.h.nodes[item].valuestring = NULL THEN print_raw_null(r)
         ELSE emit(r, Len(StrBytes(r.h, r.h.nodes[item].valuestring))
                          + sizeof_char_constant,
                   StrBytes(r.h, r.h.nodes[item].valuestring), 0,
                   Len(StrBytes(r.h, r.h.nodes[item].valuestring))
                       + sizeof_char_constant)
    ELSE IF Kind(r.h.nodes[item].type) = cJSON_String
    THEN print_string_ptr_p(r, r.h.nodes[item].valuestring)
    ELSE IF Kind(r.h.nodes[item].type) = cJSON_Array
    THEN print_array_p(r, item, depth, fmt)
    ELSE IF Kind(r.h.nodes[item].type) = cJSON_Object
    THEN print_object_p(r, item, depth, fmt)
    ELSE [r EXCEPT !.ok = FALSE]

\* the printbuffer a printing entry point sets up
printbuffer(buffer, length, noalloc) ==
    [buffer |-> buffer, length |-> length, offset |-> 0, noalloc |-> noalloc,
     data |-> <<>>, top |-> 0]

\* a cy_p64_cJSON_PrintPreallocated whose printbuffer may be reallocated
cJSON_PrintPreallocated_grow(h, item, len, fmt) ==
    IF len < 0 THEN [h |-> h, p |-> printbuffer(CallerBuffer, 0, TRUE), ok |-> FALSE]
    ELSE print_value_p([h |-> h, p |-> printbuffer(CallerBuffer, len, FALSE),
                        ok |-> TRUE], item, 0, fmt)

\* cy_p64_cJSON_PrintPreallocated(item, buf, len, fmt): what it returns
cJSON_PrintPreallocated(h, item, len, fmt) ==
    IF len < 0 THEN [h |-> h, p |-> printbuffer(CallerBuffer, 0, TRUE), ok |-> FALSE]
    ELSE print_value_p([h |-> h, p |-> printbuffer(CallerBuffer, len, TRUE),
                        ok |-> TRUE], item, 0, fmt)

---------------------------------------------------------------------------
(* The printer into strings it allocates (p = 0), formatted or not         *)
(*                                                                         *)
(* A print function gets the heap and gives [h, p]: the heap it leaves and *)
(* the heap cell of the string it returns, NULL when it fails.  The arrays *)
(* of pointers named entries and names are blocks of the heap as well.     *)

\* print_number(item, 0)
print_number_m(h, item) == malloc_str(h, print_number(item).text)

\* print_string_ptr(str, 0)
print_string_ptr_m(h, str) == malloc_str(h, print_string_ptr(h, str).text)

\* cy_p64_cJSON_free of every pointer of a list that is not NULL
RECURSIVE free_each(_, _)
free_each(h, cells) ==
    IF cells = <<>> THEN h
    ELSE free_each(IF Head(cells) = NULL THEN h ELSE free_str(h, Head(cells)),
                   Tail(cells))

\* names[i] and entries[i] in the order the loops release them
RECURSIVE Interleave(_, _)
Interleave(names, entries) ==
    IF names = <<>> THEN <<>>
    ELSE <<Head(names), Head(entries)>> \o Interleave(Tail(names), Tail(entries))

\* the output string is allocated unless a child failed; the printed children
\* and the arrays of pointers are released in both cases
print_compose(h, fail, text, cells) ==
    IF fail THEN [h |-> free_each(h, cells), p |-> NULL]
    ELSE [h |-> free_each(malloc_str(h, text).h, cells),
          p |-> malloc_str(h, text).p]

\* what print_array composes of the printed children from the i-th on
RECURSIVE array_text(_, _, _, _)
array_text(h, entries, i, fmt) ==
    IF i > Len(entries) THEN <<ch.rbrack>>
    ELSE StrBytes(h, entries[i])
         \o (IF i = Len(entries) THEN <<>>
             ELSE IF fmt THEN <<ch.comma, ch.sp>> ELSE <<ch.comma>>)
         \o array_text(h, entries, i + 1, fmt)

\* what print_object composes of the printed names and values from the i-th on
RECURSIVE object_text(_, _, _, _, _, _)
object_text(h, names, entries, i, depth, fmt) ==
    IF i > Len(entries)
    THEN (IF fmt THEN Tabs(depth - 1) ELSE <<>>) \o <<ch.rbrace>>
    ELSE (IF fmt THEN Tabs(depth) ELSE <<>>)
         \o StrBytes(h, names[i])
         \o (IF fmt THEN <<ch.colon, ch.tab>> ELSE <<ch.colon>>)
         \o StrBytes(h, entries[i])
         \o (IF i = Len(entries) THEN <<>> ELSE <<ch.comma>>)
         \o (IF fmt THEN <<ch.lf>> ELSE <<>>)
         \o object_text(h, names, entries, i + 1, depth, fmt)

RECURSIVE print_value_m(_, _, _, _)
RECURSIVE array_collect(_, _, _, _, _)

\* entries[i++] = ret, and fail when ret is NULL
array_collect_next(ret, child, depth, fmt, entries) ==
    IF ret.p = NULL
    THEN [h |-> ret.h, entries |-> Append(entries, NULL), fail |-> TRUE]
    ELSE array_collect(ret.h, ret.h.nodes[child].next, depth, fmt,
                       Append(entries, ret.p))

\* the loop of print_array that prints the children from child on
array_collect(h, child, depth, fmt, entries) ==
    IF child = NULL THEN [h |-> h, entries |-> entries, fail |-> FALSE]
    ELSE array_collect_next(print_value_m(h, child, depth + 1, fmt), child,
                            depth, fmt, entries)

array_compose(c, entries, fmt) ==
    print_compose(c.h, c.fail,
                  <<ch.lbrack>> \o array_text(c.h, c.entries, 1, fmt),
                  c.entries \o <<entries>>)

\* print_array(item, depth, fmt, 0)
print_array_m(h, item, depth, fmt) ==
    IF h.nodes[item].child = NULL THEN malloc_str(h, <<ch.lbrack, ch.rbrack>>)
    ELSE IF malloc_str(h, <<>>).p = NULL THEN [h |-> h, p |-> NULL]
    ELSE array_compose(array_collect(malloc_str(h, <<>>).h, h.nodes[item].child,
                                     depth, fmt, <<>>),
                       malloc_str(h, <<>>).p, fmt)

RECURSIVE object_collect(_, _, _, _, _, _)

\* names[i] = str and entries[i++] = ret, and fail when one of them is NULL
object_collect_next(str, ret, child, depth, fmt, names, entries) ==
    IF str # NULL /\ ret.p # NULL
    THEN object_collect(ret.h, ret.h.nodes[child].next, depth, fmt,
                        Append(names, str), Append(entries, ret.p))
    ELSE [h |-> ret.h, names |-> Append(names, str),
          entries |-> Append(entries, ret.p), fail |-> TRUE]

object_collect_value(str, child, depth, fmt, names, entries) ==
    object_collect_next(str.p, print_value_m(str.h, child, depth, fmt), child,
                        depth, fmt, names, entries)

\* the loop of print_object that prints the members from child on
object_collect(h, child, depth, fmt, names, entries) ==
    IF child = NULL
    THEN [h |-> h, names |-> names, entries |-> entries, fail |-> FALSE]
    ELSE object_collect_value(print_string_ptr_m(h, h.nodes[child].string),
                              child, depth, fmt, names, entries)

object_compose(c, entries, names, depth, fmt) ==
    print_compose(c.h, c.fail,
                  (IF fmt THEN <<ch.lbrace, ch.lf>> ELSE <<ch.lbrace>>)
                      \o object_text(c.h, c.names, c.entries, 1, depth, fmt),
                  Interleave(c.names, c.entries) \o <<names, entries>>)

\* the arrays entries and names of print_object are allocated
object_arrays(h, entries, names, item, depth, fmt) ==
    IF entries.p = NULL THEN [h |-> h, p |-> NULL]
    ELSE IF names.p = NULL THEN [h |-> free_str(entries.h, entries.p), p |-> NULL]
    ELSE object_compose(object_collect(names.h, h.nodes[item].child, depth + 1,
                                       fmt, <<>>, <<>>),
                        entries.p, names.p, depth + 1, fmt)

\* print_object(item, depth, fmt, 0)
print_object_m(h, item, depth, fmt) ==
    IF h.nodes[item].child = NULL
    THEN malloc_str(h, <<ch.lbrace>>
                       \o (IF fmt THEN <<ch.lf>> \o Tabs(depth) ELSE <<>>)
                       \o <<ch.rbrace>>)
    ELSE object_arrays(h, malloc_str(h, <<>>),
                       malloc_str(malloc_str(h, <<>>).h, <<>>), item, depth, fmt)

\* print_value(item, depth, fmt, 0)
print_value_m(h, item, depth, fmt) ==
    IF item = NULL THEN [h |-> h, p |-> NULL]
    ELSE IF Kind(h.nodes[item].type) = cJSON_NULL THEN cJSON_strdup(h, Literal_null)
    ELSE IF Kind(h.nodes[item].type) = cJSON_False THEN cJSON_strdup(h, Literal_false)
    ELSE IF Kind(h.nodes[item].type) = cJSON_True THEN cJSON_strdup(h, Literal_true)
    ELSE IF Kind(h.nodes[item].type) = cJSON_Number
    THEN print_number_m(h, h.nodes[item])
    ELSE IF Kind(h.nodes[item].type) = cJSON_Raw
    THEN IF h.nodes[item].valuestring = NULL THEN [h |-> h, p |-> NULL]
         ELSE cJSON_strdup(h, StrBytes(h, h.nodes[item].valuestring))
    ELSE IF Kind(h.nodes[item].type) = cJSON_String
    THEN print_string_ptr_m(h, h.nodes[item].valuestring)
    ELSE IF Kind(h.nodes[item].type) = cJSON_Array
    THEN print_array_m(h, item, depth, fmt)
    ELSE IF Kind(h.nodes[item].type) = cJSON_Object
    THEN print_object_m(h, item, depth, fmt)
    ELSE [h |-> h, p |-> NULL]

\* cy_p64_cJSON_Print(item)
cJSON_Print(h, item) == print_value_m(h, item, 0, TRUE)

\* cy_p64_cJSON_PrintUnformatted(item), the allocations included
cJSON_PrintUnformatted_m(h, item) == print_value_m(h, item, 0, FALSE)

\* what cy_p64_cJSON_PrintBuffered returns of what print_value left
PrintBuffered_return(r) ==
    IF r.ok THEN [h |-> [r.h EXCEPT !.strs[r.p.buffer] = r.p.data], p |-> r.p.buffer]
    ELSE [h |-> r.h, p |-> NULL]

\* cy_p64_cJSON_PrintBuffered(item, prebuffer, fmt)
cJSON_PrintBuffered(h, item, prebuffer, fmt) ==
    IF prebuffer < 0 \/ malloc_str(h, <<>>).p = NULL THEN [h |-> h, p |-> NULL]
    ELSE PrintBuffered_return(
             print_value_p([h |-> malloc_str(h, <<>>).h,
                            p |-> printbuffer(malloc_str(h, <<>>).p, prebuffer, FALSE),
                            ok |-> TRUE], item, 0, fmt))

---------------------------------------------------------------------------
(* An application building, editing and deleting trees                     *)
(*                                                                         *)
(* Spec: trees are built with the Create and Add functions, references     *)
(* included, and deleted.  SpecLinks: one pool of plain nodes is edited    *)
(* with every function that relinks siblings.                              *)

\* the sizes of the node pool and of the string pool of Spec
TreeNodes == 4
TreeStrs == 2
\* the sizes of the node pool and of the string pool of SpecLinks
LinkNodes == 4
LinkStrs == 2
\* the number of trees the application holds at a time
MaxRoots == 2

AddKeys == {<<ch.a>>}
LookupKeys == {<<ch.A>>}
StringValues == {<<ch.x>>}

Cells == DOMAIN mem.nodes

ClearLog(h) == [h EXCEPT !.log = <<>>]

\* the nodes cy_p64_cJSON_Delete(c) is to release: c, its siblings after it,
\* and the children of those that are not references
RECURSIVE OwnedFrom(_, _)
OwnedFrom(h, c) ==
    IF c = NULL \/ c \notin h.live THEN {}
    ELSE {c} \cup OwnedFrom(h, h.nodes[c].next)
             \cup (IF HasFlag(h.nodes[c].type, cJSON_IsReference) THEN {}
                   ELSE OwnedFrom(h, h.nodes[c].child))

\* a node and what hangs below it
Subtree(h, c) ==
    {c} \cup (IF HasFlag(h.nodes[c].type, cJSON_IsReference) THEN {}
              ELSE OwnedFrom(h, h.nodes[c].child))

\* the nodes the application holds as roots: linked under no other node
IsRoot(h, x) ==
    /\ x \in h.live
    /\ \A y \in h.live :
          /\ h.nodes[y].next # x
          /\ HasFlag(h.nodes[y].type, cJSON_IsReference) \/ h.nodes[y].child # x

\* the containers the application edits: the arrays and objects it holds
IsContainer(h, a) ==
    /\ IsRoot(h, a)
    /\ Kind(h.nodes[a].type) \in {cJSON_Array, cJSON_Object}
    /\ ~HasFlag(h.nodes[a].type, cJSON_IsReference)

IsObject(h, a) == IsContainer(h, a) /\ Kind(h.nodes[a].type) = cJSON_Object

\* the application may take hold of one more tree
MayHold(h) == Cardinality({x \in h.live : IsRoot(h, x)}) < MaxRoots

\* x may be linked into container a: a root that does not hold a
Addable(h, a, x) == IsRoot(h, x) /\ a \notin Subtree(h, x)

\* refOf kept for the live copies of live nodes only
LiveRefs(r, h) ==
    [i \in DOMAIN r |-> IF i \in h.live /\ r[i] \in h.live THEN r[i] ELSE NULL]

TreeIdle ==
    /\ mem = EmptyHeap(0, 0, -1)
    /\ op = <<"idle">>
    /\ refOf = <<>>

TreeInit ==
    /\ mem = EmptyHeap(TreeNodes, TreeStrs, -1)
    /\ op = <<"init">>
    /\ refOf = [i \in 1..TreeNodes |-> NULL]

LinksInit ==
    /\ mem = EmptyHeap(LinkNodes, LinkStrs, -1)
    /\ op = <<"init">>
    /\ refOf = [i \in 1..LinkNodes |-> NULL]

\* the bookkeeping of a call other than cy_p64_cJSON_Delete that leaves heap h
Called(h) ==
    /\ mem' = ClearLog(h)
    /\ op' = <<"call">>
    /\ refOf' = LiveRefs(refOf, h)
    /\ UNCHANGED <<numVars, utfVars, parseVars, minVars, printVars, ownVars, heapVars>>

TCreateObject == MayHold(mem) /\ Called(cJSON_CreateObject(mem).h)

TCreateString(bytes) == MayHold(mem) /\ Called(cJSON_CreateString(mem, bytes).h)

TAddItemToArray(a, x) ==
    /\ IsContainer(mem, a) /\ Addable(mem, a, x)
    /\ Called(cJSON_AddItemToArray(mem, a, x))

TAddItemToObject(a, key, x) ==
    /\ IsObject(mem, a) /\ Addable(mem, a, x)
    /\ Called(cJSON_AddItemToObject(mem, a, key, x))

TAddItemToObjectCS(a, k, x) ==
    /\ IsObject(mem, a) /\ Addable(mem, a, x)
    /\ Called(cJSON_AddItemToObjectCS(mem, a, -k, x))

TAddItemReferenceToArray(a, x) ==
    /\ IsContainer(mem, a) /\ x \in mem.live
    /\ mem' = ClearLog(cJSON_AddItemReferenceToArray(mem, a, x))
    /\ op' = <<"call">>
    /\ refOf' = LET r == create_reference(mem, x)
                IN  IF r.p = NULL THEN refOf ELSE [refOf EXCEPT ![r.p] = x]
    /\ UNCHANGED <<numVars, utfVars, parseVars, minVars, printVars, ownVars, heapVars>>

TDetachItemFromArray(a, which) ==
    /\ IsContainer(mem, a) /\ MayHold(mem)
    /\ Called(cJSON_DetachItemFromArray(mem, a, which).h)

TDetachItemFromObject(a, key) ==
    /\ IsObject(mem, a) /\ MayHold(mem)
    /\ Called(cJSON_DetachItemFromObject(mem, a, key).h)

TDeleteItemFromArray(a, which) ==
    /\ IsContainer(mem, a)
    /\ Called(cJSON_DeleteItemFromArray(mem, a, which))

TDeleteItemFromObject(a, key) ==
    /\ IsObject(mem, a)
    /\ Called(cJSON_DeleteItemFromObject(mem, a, key))

TInsertItemInArray(a, which, x) ==
    /\ IsContainer(mem, a) /\ Addable(mem, a, x)
    /\ Called(cJSON_InsertItemInArray(mem, a, which, x))

TReplaceItemInArray(a, which, x) ==
    /\ IsContainer(mem, a) /\ Addable(mem, a, x)
    /\ Called(cJSON_ReplaceItemInArray(mem, a, which, x))

TReplaceItemInObject(a, key, x) ==
    /\ IsObject(mem, a) /\ Addable(mem, a, x)
    /\ Called(cJSON_ReplaceItemInObject(mem, a, key, x))

\* the application deletes a tree it holds; op keeps the root and the nodes
\* that references inside the tree were made of
TDelete(c) ==
    /\ IsRoot(mem, c)
    /\ mem' = cJSON_Delete(ClearLog(mem), c)
    /\ op' = <<"Delete", c, {refOf[r] : r \in OwnedFrom(mem, c)} \ {NULL}>>
    /\ refOf' = LiveRefs(refOf, cJSON_Delete(mem, c))
    /\ UNCHANGED <<numVars, utfVars, parseVars, minVars, printVars, ownVars, heapVars>>

---------------------------------------------------------------------------
(* Parsing, building and printing documents: SpecParse and SpecErr         *)
(*                                                                         *)
(* SpecParse: one text is parsed by cy_p64_cJSON_ParseWithOpts, with or    *)
(* without a return_parse_end, with allocations that fail from some point  *)
(* on or never; or a tree is built with the Create and Add functions.  A   *)
(* tree is then printed unformatted and the output parsed again.           *)
(* SpecErr: a sequence of parse calls on a few texts.                      *)

\* the most nodes and strings that a parsed document needs
ParseNodes == 6
ParseStrs == 4
\* allocations succeed without limit, or only the first 0 .. MaxFuel
MaxFuel == 8
\* the number of items added to a built tree
MaxEdits == 2
\* the number of parse calls of SpecErr
MaxCalls == 3
\* the pools hold a parsed or built tree and the tree parsed from its output
PoolNodes == 2 * (ParseNodes + MaxEdits)
PoolStrs == 2 * (ParseStrs + 2 * MaxEdits)

Quoted(body) == <<ch.quote>> \o body \o <<ch.quote>>

Digit(d) == <<ch.zero + d>>

\* the bodies of well-formed string literals
GoodBodies ==
    {<<>>, <<ch.a>>, <<ch.bslash, ch.n>>, <<ch.a, ch.bslash, ch.quote>>,
     Escape(65, FALSE), Escape(233, TRUE),
     Escape(55357, FALSE) \o Escape(56832, TRUE)}

\* the bodies of string literals with an escape the parser rejects
BadBodies ==
    {<<ch.bslash, ch.x>>, <<ch.a, ch.bslash, ch.x>>,
     Escape(55357, FALSE), Escape(56832, FALSE),
     Escape(55357, FALSE) \o Escape(65, FALSE),
     Escape(55357, FALSE) \o <<ch.a, ch.b>>,
     Escape(55357, FALSE) \o <<ch.bslash, ch.n>>,
     <<ch.bslash, ch.n>> \o Escape(56320, TRUE),
     Escape(233, FALSE) \o <<ch.bslash, ch.a>>,
     Escape(0, FALSE)}

Uint32MaxText == <<52, 50, 57, 52, 57, 54, 55, 50, 57, 53>>

Scalars ==
    {Literal_null, Literal_true, Literal_false, Digit(0), Digit(1) \o Digit(2),
     <<ch.minus>> \o Digit(5), Uint32MaxText, Uint32MaxText \o Digit(0)}
    \cup {Quoted(b) : b \in GoodBodies \cup BadBodies}

\* the values put into arrays and objects
Inner == {Digit(1), Quoted(<<ch.a>>), Literal_null, <<ch.lbrack, ch.rbrack>>,
          <<ch.lbrace, ch.rbrace>>, Quoted(<<ch.bslash, ch.x>>),
          Quoted(Escape(56832, FALSE))}
Second == {Digit(2), Quoted(<<ch.b>>)}

Key(c) == Quoted(<<c>>) \o <<ch.colon>>

Arrays ==
    {<<ch.lbrack, ch.rbrack>>}
    \cup {<<ch.lbrack>> \o v \o <<ch.rbrack>> : v \in Inner}
    \cup {<<ch.lbrack>> \o v \o <<ch.comma>> \o w \o <<ch.rbrack>> :
            v \in Inner, w \in Second}
    \cup {<<ch.lbrack, ch.lbrack>> \o Digit(1) \o <<ch.rbrack, ch.rbrack>>,
          <<ch.lbrack, ch.lbrace>> \o Key(ch.a) \o Digit(1) \o <<ch.rbrace, ch.rbrack>>}

Objects ==
    {<<ch.lbrace, ch.rbrace>>}
    \cup {<<ch.lbrace>> \o Key(ch.a) \o v \o <<ch.rbrace>> : v \in Inner}
    \cup {<<ch.lbrace>> \o Key(ch.a) \o v \o <<ch.comma>> \o Key(ch.b) \o w
              \o <<ch.rbrace>> : v \in Inner, w \in Second}
    \cup {<<ch.lbrace>> \o Key(ch.a) \o <<ch.lbrack>> \o Digit(1)
              \o <<ch.rbrack, ch.rbrace>>,
          <<ch.lbrace>> \o Quoted(<<ch.bslash, ch.x>>) \o <<ch.colon>> \o Digit(1)
              \o <<ch.rbrace>>}

\* whitespace, trailing bytes and misplaced punctuation
Odd ==
    {<<ch.sp, ch.lbrack, ch.sp>> \o Digit(1) \o <<ch.sp, ch.comma, ch.lf>>
         \o Quoted(<<ch.a>>) \o <<ch.sp, ch.rbrack, ch.sp>>,
     <<ch.sp, ch.lbrace, ch.sp>> \o Quoted(<<ch.a>>) \o <<ch.sp, ch.colon, ch.sp>>
         \o Digit(1) \o <<ch.sp, ch.rbrace, ch.tab>>,
     Digit(1) \o <<ch.sp, ch.x>>,
     <<ch.lbrack, ch.rbrack, ch.rbrack>>,
     Literal_true \o Literal_false,
     <<ch.lbrack>> \o Digit(1) \o <<ch.sp>> \o Digit(2) \o <<ch.rbrack>>,
     <<ch.lbrack>> \o Digit(1) \o <<ch.comma, ch.rbrack>>,
     <<ch.lbrace>> \o Quoted(<<ch.a>>) \o <<ch.sp>> \o Digit(1) \o <<ch.rbrace>>,
     <<ch.lbrace>> \o Key(ch.a) \o Digit(1) \o <<ch.comma, ch.rbrace>>,
     <<ch.lbrace>> \o Key(ch.a) \o Digit(1) \o <<ch.sp>> \o Key(ch.b) \o Digit(2)
         \o <<ch.rbrace>>,
     <<ch.lbrace>> \o Digit(1) \o <<ch.colon>> \o Digit(1) \o <<ch.rbrace>>,
     <<ch.lbrack, ch.minus, ch.comma>> \o Digit(1) \o <<ch.rbrack>>,
     <<ch.x>>, <<ch.rbrack>>, <<ch.comma>>,
     Digit(1) \o <<ch.dot>> \o Digit(5),
     <<ch.lbrack, ch.rbrack, ch.sp, ch.lf, ch.tab, ch.rbrack>>,
     Literal_null \o <<ch.sp, ch.x>>,
     <<ch.lbrack>> \o Digit(1) \o <<ch.comma>> \o Digit(2) \o <<ch.comma, ch.rbrack>>,
     <<ch.lbrack>> \o Digit(1) \o <<ch.comma, ch.sp, ch.rbrack>>,
     <<ch.lbrace>> \o Key(ch.a) \o Digit(1) \o <<ch.comma, ch.lf, ch.rbrace>>}

\* values written down as what they are: [k: the kind, num, str, names: the
\* member names of an object, items: the elements or member values]
Leaf(k, num, str) == [k |-> k, num |-> num, str |-> str, names |-> <<>>, items |-> <<>>]
NumberOf(d) == Leaf(cJSON_Number, <<d, 0>>, <<>>)
ArrayOf(items) ==
    [k |-> cJSON_Array, num |-> <<0, 0>>, str |-> <<>>, names |-> <<>>, items |-> items]
ObjectOf(names, items) ==
    [k |-> cJSON_Object, num |-> <<0, 0>>, str |-> <<>>, names |-> names, items |-> items]

Shapes ==
    {ArrayOf(<<>>), ObjectOf(<<>>, <<>>),
     ArrayOf(<<NumberOf(1), NumberOf(2), Leaf(cJSON_NULL, <<0, 0>>, <<>>)>>),
     ArrayOf(<<ArrayOf(<<NumberOf(1)>>), Leaf(cJSON_String, <<0, 0>>, <<ch.a>>)>>),
     ObjectOf(<< <<ch.a>>, <<ch.b>> >>,
              <<NumberOf(1), ArrayOf(<<Leaf(cJSON_True, <<1, 0>>, <<>>),
                                       Leaf(cJSON_False, <<0, 0>>, <<>>),
                                       Leaf(cJSON_NULL, <<0, 0>>, <<>>)>>)>>),
     ObjectOf(<< <<ch.a>>, <<ch.A>> >>, <<NumberOf(1), NumberOf(2)>>),
     ObjectOf(<< <<ch.a>>, <<ch.a>> >>, <<NumberOf(1), NumberOf(2)>>)}

\* the JSON text of a shape (names and strings here need no escapes, numbers
\* are single digits)
RECURSIVE Render(_)
RECURSIVE RenderItems(_, _)
RenderItems(sh, i) ==
    IF i > Len(sh.items) THEN <<>>
    ELSE (IF i > 1 THEN <<ch.comma>> ELSE <<>>)
         \o (IF sh.k = cJSON_Object THEN Quoted(sh.names[i]) \o <<ch.colon>> ELSE <<>>)
         \o Render(sh.items[i]) \o RenderItems(sh, i + 1)

Render(sh) ==
    IF sh.k = cJSON_NULL THEN Literal_null
    ELSE IF sh.k = cJSON_True THEN Literal_true
    ELSE IF sh.k = cJSON_False THEN Literal_false
    ELSE IF sh.k = cJSON_Number THEN Digit(sh.num[1])
    ELSE IF sh.k = cJSON_String THEN Quoted(sh.str)
    ELSE IF sh.k = cJSON_Array THEN <<ch.lbrack>> \o RenderItems(sh, 1) \o <<ch.rbrack>>
    ELSE <<ch.lbrace>> \o RenderItems(sh, 1) \o <<ch.rbrace>>

Documents == Scalars \cup Arrays \cup Objects \cup Odd \cup {Render(sh) : sh \in Shapes}

\* the documents and everything they are cut down to
ParseTexts == UNION {{SubSeq(d, 1, k) : k \in 0..Len(d)} : d \in Documents}

\* the nodes the Create functions are asked for
BuildItems ==
    {[type |-> t, num |-> <<0, 0>>, bytes |-> <<>>] :
        t \in {cJSON_NULL, cJSON_True, cJSON_False, cJSON_Array, cJSON_Object}}
    \cup {[type |-> cJSON_Number, num |-> v, bytes |-> <<>>] :
            v \in {<<7, 0>>, UINT32_MAX}}
    \cup {[type |-> cJSON_String, num |-> <<0, 0>>, bytes |-> b] :
            b \in {<<ch.a>>, <<1, ch.quote>>}}
    \cup {[type |-> cJSON_Raw, num |-> <<0, 0>>, bytes |-> b] :
            b \in {Digit(1), <<ch.x>>}}

CreateItem(h, b) ==
    IF b.type = cJSON_Number THEN cJSON_CreateNumber(h, b.num)
    ELSE IF b.type = cJSON_String THEN cJSON_CreateString(h, b.bytes)
    ELSE IF b.type = cJSON_Raw THEN cJSON_CreateRaw(h, b.bytes)
    ELSE CreateOfType(h, b.type)

\* the texts of SpecErr: one that parses, and one for each way of failing
ErrTexts ==
    {Digit(1), <<ch.x>>, Digit(1) \o <<ch.x>>, <<ch.minus>>,
     <<ch.quote, ch.a>>, <<ch.lbrack>> \o Digit(1)}

\* a pointer into the text of the calls-th parse call
NULL_EP == [call |-> 0, pos |-> NULL]

ParseIdle ==
    /\ pText = <<>>
    /\ pRpe = FALSE
    /\ pRnt = FALSE
    /\ pPc = "off"
    /\ pRoot = NULL
    /\ pEnd = NULL
    /\ global_ep = NULL_EP
    /\ calls = 0
    /\ pPrinted = <<>>
    /\ pRoot2 = NULL
    /\ edits = 0

ParseInit ==
    /\ pText \in ParseTexts
    /\ pRpe \in BOOLEAN
    /\ pRnt \in BOOLEAN
    /\ pPc = "start"
    /\ pRoot = NULL
    /\ pEnd = NULL
    /\ global_ep = NULL_EP
    /\ calls = 0
    /\ pPrinted = <<>>
    /\ pRoot2 = NULL
    /\ edits = 0
    /\ \E fuel \in {-1} \cup 0..MaxFuel : mem = EmptyHeap(PoolNodes, PoolStrs, fuel)
    /\ op = <<"idle">>
    /\ refOf = <<>>

ErrInit ==
    /\ pText = <<>>
    /\ pRpe = FALSE
    /\ pRnt = FALSE
    /\ pPc = "idle"
    /\ pRoot = NULL
    /\ pEnd = NULL
    /\ global_ep = NULL_EP
    /\ calls = 0
    /\ pPrinted = <<>>
    /\ pRoot2 = NULL
    /\ edits = 0
    /\ mem = EmptyHeap(PoolNodes, PoolStrs, -1)
    /\ op = <<"idle">>
    /\ refOf = <<>>

\* one call of cy_p64_cJSON_ParseWithOpts(text, rpe ? &pEnd : 0, rnt)
\* r what the call returned; *ep is pEnd when rpe, and global_ep otherwise
ParseReturn(text, rpe, rnt, r) ==
    /\ mem' = r.h
    /\ pRoot' = r.c
    /\ pEnd' = IF rpe THEN r.ep ELSE pEnd
    /\ global_ep' = IF rpe THEN global_ep
                    ELSE IF r.ep = NULL THEN NULL_EP
                    ELSE [call |-> calls + 1, pos |-> r.ep]
    /\ calls' = calls + 1
    /\ pText' = text
    /\ pRpe' = rpe
    /\ pRnt' = rnt
    /\ pPc' = "parsed"
    /\ UNCHANGED <<pPrinted, pRoot2, edits, op, refOf, numVars, utfVars, minVars, printVars, ownVars, heapVars>>

ParseCall(text, rpe, rnt) ==
    \E g \in GarbageBytes :
        ParseReturn(text, rpe, rnt,
            cJSON_ParseWithOpts(ClearLog(mem), text, rpe, rnt, [i \in 1..4 |-> g]))

PParse == pPc = "start" /\ ParseCall(pText, pRpe, pRnt)

\* the application builds a tree instead
PCreate(b) ==
    /\ pPc = "start" /\ pText = <<>> /\ ~pRpe /\ ~pRnt /\ mem.fuel = -1
    /\ mem' = CreateItem(mem, b).h
    /\ pRoot' = CreateItem(mem, b).p
    /\ pPc' = "built"
    /\ UNCHANGED <<pText, pRpe, pRnt, pEnd, global_ep, calls, pPrinted, pRoot2,
                   edits, op, refOf, numVars, utfVars, minVars, printVars, ownVars, heapVars>>

\* a created item is added to the tree: under the name "a", or without one
PAdd(b, named) ==
    /\ pPc = "built" /\ edits < MaxEdits
    /\ Kind(mem.nodes[pRoot].type) \in
          (IF named THEN {cJSON_Object} ELSE {cJSON_Array, cJSON_Object})
    /\ LET r == CreateItem(mem, b)
       IN  mem' = ClearLog(IF named
                           THEN cJSON_AddItemToObject(r.h, pRoot, <<ch.a>>, r.p)
                           ELSE cJSON_AddItemToArray(r.h, pRoot, r.p))
    /\ edits' = edits + 1
    /\ UNCHANGED <<pText, pRpe, pRnt, pPc, pRoot, pEnd, global_ep, calls, pPrinted,
                   pRoot2, op, refOf, numVars, utfVars, minVars, printVars, ownVars, heapVars>>

cJSON_Parse(h, text, garbage) == cJSON_ParseWithOpts(h, text, FALSE, FALSE, garbage)

\* cy_p64_cJSON_PrintUnformatted of the tree, then cy_p64_cJSON_Parse of the
\* string it returned
Reparsed(out, r) ==
    IF out.ok
    THEN /\ pPrinted' = out.text
         /\ mem' = r.h
         /\ pRoot2' = r.c
         /\ global_ep' = IF r.ep = NULL THEN NULL_EP
                         ELSE [call |-> calls + 1, pos |-> r.ep]
         /\ calls' = calls + 1
    ELSE UNCHANGED <<pPrinted, mem, pRoot2, global_ep, calls>>

Printed(out, garbage) ==
    Reparsed(out, cJSON_Parse(ClearLog(mem), out.text, garbage))

PRoundTrip ==
    /\ pPc \in {"parsed", "built"} /\ pRoot # NULL /\ mem.fuel = -1
    /\ \E g \in GarbageBytes :
          Printed(cJSON_PrintUnformatted(mem, pRoot), [i \in 1..4 |-> g])
    /\ pPc' = "reparsed"
    /\ UNCHANGED <<pText, pRpe, pRnt, pRoot, pEnd, edits, op, refOf, numVars, utfVars, minVars, printVars, ownVars, heapVars>>

\* SpecErr: the next parse call
EParse(text, rpe, rnt) ==
    /\ pPc = "idle" /\ calls < MaxCalls
    /\ ParseCall(text, rpe, rnt)

\* SpecErr: the caller deletes what the call returned
ERelease ==
    /\ pPc = "parsed"
    /\ mem' = cJSON_Delete(ClearLog(mem), pRoot)
    /\ pRoot' = NULL
    /\ pPc' = "idle"
    /\ UNCHANGED <<pText, pRpe, pRnt, pEnd, global_ep, calls, pPrinted, pRoot2,
                   edits, op, refOf, numVars, utfVars, minVars, printVars, ownVars, heapVars>>

---------------------------------------------------------------------------
(* Printing a string and parsing the output: SpecStr                       *)
(*                                                                         *)
(* A String item holds a NUL-free byte string; it is printed, and the      *)
(* output is parsed with a return_parse_end.  pText is the byte string,    *)
(* pPrinted the output, pRoot2 and pEnd what the parse call returned.      *)

\* control bytes with and without a short escape, the quote, the backslash,
\* ordinary characters, DEL, and the bytes of U+00E9 and of U+1F600
StrAlphabet == {1, ch.bs, ch.lf, 31, ch.sp, ch.quote, ch.slash, ch.bslash, ch.a, ch.u,
                127, 195, 169}
MaxStrLen == 2
StrInputs ==
    UNION {[1..n -> StrAlphabet] : n \in 0..MaxStrLen}
    \cup {<<240, 159, 152, 128>>, <<ch.bslash, ch.u, ch.zero, ch.zero, ch.zero, 49>>,
          <<ch.a, ch.bslash, ch.quote, 1>>}

StrInit ==
    /\ pText \in StrInputs
    /\ pRpe = TRUE
    /\ pRnt = FALSE
    /\ pPc = "string"
    /\ mem = cJSON_CreateString(EmptyHeap(PoolNodes, PoolStrs, -1), pText).h
    /\ pRoot = cJSON_CreateString(EmptyHeap(PoolNodes, PoolStrs, -1), pText).p
    /\ pEnd = NULL
    /\ global_ep = NULL_EP
    /\ calls = 0
    /\ pPrinted = <<>>
    /\ pRoot2 = NULL
    /\ edits = 0
    /\ op = <<"idle">>
    /\ refOf = <<>>

\* print_string_ptr of the item's valuestring
SPrint ==
    /\ pPc = "string"
    /\ print_string_ptr(mem, mem.nodes[pRoot].valuestring).ok
    /\ pPrinted' = print_string_ptr(mem, mem.nodes[pRoot].valuestring).text
    /\ pPc' = "string printed"
    /\ UNCHANGED <<pText, pRpe, pRnt, pRoot, pEnd, global_ep, calls, pRoot2, edits,
                   mem, op, refOf, numVars, utfVars, minVars, printVars, ownVars, heapVars>>

SParsed(r) ==
    /\ mem' = r.h
    /\ pRoot2' = r.c
    /\ pEnd' = r.ep
    /\ calls' = calls + 1
    /\ pPc' = "string parsed"
    /\ UNCHANGED <<pText, pRpe, pRnt, pRoot, global_ep, pPrinted, edits, op, refOf,
                   numVars, utfVars, minVars, printVars, ownVars, heapVars>>

\* cy_p64_cJSON_ParseWithOpts(pPrinted, &pEnd, 0)
SParse ==
    /\ pPc = "string printed"
    /\ \E g \in GarbageBytes :
          SParsed(cJSON_ParseWithOpts(ClearLog(mem), pPrinted, TRUE, FALSE,
                                      [i \in 1..4 |-> g]))

---------------------------------------------------------------------------
(* cy_p64_cJSON_Minify: SpecMin                                            *)
(*                                                                         *)
(* The buffer is the text and its terminator; behind it memory holds what  *)
(* it holds (minBeyond, and NUL from there on).  Minify writes at into and *)
(* reads at json, into never in front of json, so that what it reads is    *)
(* what the buffer held at the call; a read behind the terminator is       *)
(* undefined behaviour, and ub tells that one happened.                    *)

\* while (*json && (*json != '\n')) json++;
RECURSIVE LineEnd(_, _)
LineEnd(m, json) ==
    IF At(m, json) # ch.nul /\ At(m, json) # ch.lf THEN LineEnd(m, json + 1) ELSE json

\* while (*json && !((*json == '*') && (json[1] == '/'))) json++;
RECURSIVE CommentEnd(_, _)
CommentEnd(m, json) ==
    IF At(m, json) # ch.nul /\ ~(At(m, json) = ch.star /\ At(m, json + 1) = ch.slash)
    THEN CommentEnd(m, json + 1) ELSE json

\* the loop that copies a string literal up to its closing quote: [json, out]
RECURSIVE LiteralCopy(_, _, _)
LiteralCopy(m, json, out) ==
    IF At(m, json) # ch.nul /\ At(m, json) # ch.quote
    THEN IF At(m, json) = ch.bslash
         THEN LiteralCopy(m, json + 2, out \o <<At(m, json), At(m, json + 1)>>)
         ELSE LiteralCopy(m, json + 1, Append(out, At(m, json)))
    ELSE [json |-> json + 1, out |-> Append(out, At(m, json))]

\* the loop of cy_p64_cJSON_Minify on memory m with the terminator at n:
\* [out: the bytes written, ub: json went behind the terminator]
RECURSIVE MinifyLoop(_, _, _, _, _)
MinifyLoop(m, n, json, out, ub) ==
    IF At(m, json) = ch.nul THEN [out |-> out, ub |-> ub \/ json > n]
    ELSE IF At(m, json) \in {ch.sp, ch.tab, ch.cr, ch.lf}
    THEN MinifyLoop(m, n, json + 1, out, ub \/ json > n)
    ELSE IF At(m, json) = ch.slash /\ At(m, json + 1) = ch.slash
    THEN MinifyLoop(m, n, LineEnd(m, json), out, ub \/ json > n)
    ELSE IF At(m, json) = ch.slash /\ At(m, json + 1) = ch.star
    THEN MinifyLoop(m, n, CommentEnd(m, json) + 2, out, ub \/ json > n)
    ELSE IF At(m, json) = ch.quote
    THEN MinifyLoop(m, n, LiteralCopy(m, json + 1, Append(out, ch.quote)).json,
                    LiteralCopy(m, json + 1, Append(out, ch.quote)).out, ub \/ json > n)
    ELSE MinifyLoop(m, n, json + 1, Append(out, At(m, json)), ub \/ json > n)

\* cy_p64_cJSON_Minify(json) on memory m: [text: the string in the buffer
\* afterwards, m: memory afterwards, ub]
MinifyDone(m, r) ==
    [text |-> CStr(r.out),
     m |-> r.out \o <<ch.nul>> \o SubSeq(m, Len(r.out) + 2, Len(m)),
     ub |-> r.ub]

cJSON_Minify(m, n) == MinifyDone(m, MinifyLoop(m, n, 1, <<>>, FALSE))

MinAlphabet == {ch.sp, ch.lf, ch.slash, ch.star, ch.quote, ch.bslash, ch.a}
MaxMinLen == 4
MinTexts == UNION {[1..k -> MinAlphabet] : k \in 0..MaxMinLen}
\* what memory holds behind the terminator
MinBeyonds == {<<>>, <<ch.a, ch.quote>>}

NoMinify == [text |-> <<>>, m |-> <<>>, ub |-> FALSE]

MinIdle ==
    /\ minText = <<>>
    /\ minBeyond = <<>>
    /\ minPc = "off"
    /\ minOut = NoMinify
    /\ minAgain = NoMinify

MinInit ==
    /\ minText \in MinTexts
    /\ minBeyond \in MinBeyonds
    /\ minPc = "start"
    /\ minOut = NoMinify
    /\ minAgain = NoMinify

\* cy_p64_cJSON_Minify(buffer)
MinifyOnce ==
    /\ minPc = "start"
    /\ minOut' = cJSON_Minify(minText \o <<ch.nul>> \o minBeyond, Len(minText) + 1)
    /\ minPc' = "once"
    /\ UNCHANGED <<minText, minBeyond, minAgain, numVars, utfVars, treeVars, parseVars, printVars, ownVars, heapVars>>

\* cy_p64_cJSON_Minify(buffer) a second time
MinifyAgain ==
    /\ minPc = "once"
    /\ minAgain' = cJSON_Minify(minOut.m, Len(minOut.text) + 1)
    /\ minPc' = "twice"
    /\ UNCHANGED <<minText, minBeyond, minOut, numVars, utfVars, treeVars, parseVars, printVars, ownVars, heapVars>>

---------------------------------------------------------------------------
(* Printing a tree with every entry point: SpecPrint                       *)
(*                                                                         *)
(* A text is parsed or a tree is built, as in SpecParse and with every     *)
(* allocation succeeding; pRoot is NULL when the text was no document.     *)
(* Then one printing entry point is called on pRoot: into a buffer of the  *)
(* caller of any length up to MaxBuf, or with allocations that fail from   *)
(* some point of the call on, or never.  prRet holds whether the call      *)
(* returned success, the block and the text it returned, the string blocks *)
(* that were allocated before the call, and how far into the buffer of the *)
(* caller bytes were stored.                                               *)

\* the longest buffer handed to cy_p64_cJSON_PrintPreallocated
MaxBuf == 40
\* allocations of a printing call that succeed before one fails
MaxPrintFuel == 10
\* the sizes cy_p64_cJSON_PrintBuffered is asked to start with
Prebuffers == {0, 1, 16}

PrintTexts ==
    {Render(sh) : sh \in Shapes}
    \cup {Render(ObjectOf(<< <<ch.a>> >>,
                          <<ObjectOf(<< <<ch.b>> >>, <<ObjectOf(<<>>, <<>>)>>)>>))}
    \cup {Literal_null, Literal_false, Digit(0), Uint32MaxText,
          Quoted(<<ch.a, ch.bslash, ch.n>>), <<ch.x>>, <<>>}

NoCall == [fn |-> "none", fmt |-> FALSE, size |-> 0, fuel |-> -1]
NoRet == [ok |-> FALSE, p |-> NULL, text |-> <<>>, before |-> {}, top |-> 0]

PrintIdle == prCall = NoCall /\ prRet = NoRet

PrintInit ==
    /\ pText \in PrintTexts
    /\ pRpe = FALSE
    /\ pRnt = FALSE
    /\ pPc = "start"
    /\ pRoot = NULL
    /\ pEnd = NULL
    /\ global_ep = NULL_EP
    /\ calls = 0
    /\ pPrinted = <<>>
    /\ pRoot2 = NULL
    /\ edits = 0
    /\ mem = EmptyHeap(PoolNodes, PoolStrs, -1)
    /\ op = <<"idle">>
    /\ refOf = <<>>
    /\ PrintIdle

\* the tree is there, and no printing entry point was called yet
Printable == pPc \in {"parsed", "built"}

\* the heap at a printing call whose allocations fail after the first fuel
Fuelled(fuel) == [ClearLog(mem) EXCEPT !.fuel = fuel]

\* a printing entry point that allocates returned r = [h, p]
PrintReturn(fn, fmt, size, fuel, r) ==
    /\ prCall' = [fn |-> fn, fmt |-> fmt, size |-> size, fuel |-> fuel]
    /\ prRet' = [ok |-> r.p # NULL, p |-> r.p,
                 text |-> IF r.p # NULL THEN r.h.strs[r.p] ELSE <<>>,
                 before |-> mem.slive, top |-> 0]
    /\ mem' = r.h
    /\ pPc' = "printed"
    /\ UNCHANGED <<pText, pRpe, pRnt, pRoot, pEnd, global_ep, calls, pPrinted,
                   pRoot2, edits, op, refOf, numVars, utfVars, minVars, ownVars, heapVars>>

\* cy_p64_cJSON_PrintPreallocated returned r = [h, p, ok]
PreallocatedReturn(fmt, len, r) ==
    /\ prCall' = [fn |-> "PrintPreallocated", fmt |-> fmt, size |-> len, fuel |-> -1]
    /\ prRet' = [ok |-> r.ok, p |-> NULL,
                 text |-> IF r.ok THEN r.p.data ELSE <<>>,
                 before |-> mem.slive, top |-> r.p.top]
    /\ mem' = r.h
    /\ pPc' = "printed"
    /\ UNCHANGED <<pText, pRpe, pRnt, pRoot, pEnd, global_ep, calls, pPrinted,
                   pRoot2, edits, op, refOf, numVars, utfVars, minVars, ownVars, heapVars>>

PrPrint(fuel) ==
    /\ Printable
    /\ PrintReturn("Print", TRUE, 0, fuel, cJSON_Print(Fuelled(fuel), pRoot))

PrPrintUnformatted(fuel) ==
    /\ Printable
    /\ PrintReturn("PrintUnformatted", FALSE, 0, fuel,
                   cJSON_PrintUnformatted_m(Fuelled(fuel), pRoot))

PrPrintBuffered(prebuffer, fmt, fuel) ==
    /\ Printable
    /\ PrintReturn("PrintBuffered", fmt, prebuffer, fuel,
                   cJSON_PrintBuffered(Fuelled(fuel), pRoot, prebuffer, fmt))

PrPrintPreallocated(len, fmt) ==
    /\ Printable
    /\ PreallocatedReturn(fmt, len,
                          cJSON_PrintPreallocated(ClearLog(mem), pRoot, len, fmt))

---------------------------------------------------------------------------
(* Names, references and copies under allocation failure: SpecOwn          *)
(*                                                                         *)
(* An application makes up to MaxSteps calls: it creates objects, adds     *)
(* them to objects under duplicated and under borrowed names, detaches and *)
(* replaces members, adds references, duplicates nodes and deletes trees.  *)
(* A call that allocates runs with allocations that fail from some point   *)
(* of the call on, or never, or for want of a free cell; op names the      *)
(* call, its target and whether an allocation of it failed.  Nothing is    *)
(* called after a call that accessed a missing node.                       *)

\* the sizes of the node pool and of the string pool of SpecOwn
OwnNodes == 3
OwnStrs == 2
\* allocations of a call that succeed before one fails
MaxOwnFuel == 1
\* the number of calls of the application
MaxSteps == 6

OwnFuels == {-1} \cup 0..MaxOwnFuel
OwnLookupKeys == {<<ch.A>>, <<ch.b>>}

OwnIdle == steps = 0

OwnInit ==
    /\ mem = EmptyHeap(OwnNodes, OwnStrs, -1)
    /\ op = <<"init">>
    /\ refOf = [i \in 1..OwnNodes |-> NULL]
    /\ steps = 0

\* the bookkeeping of a call that left heap h
CalledAs(h, tag, refs) ==
    /\ mem.fault = "none"
    /\ steps < MaxSteps
    /\ steps' = steps + 1
    /\ mem' = [h EXCEPT !.fuel = -1]
    /\ op' = tag
    /\ refOf' = LiveRefs(refs, h)
    /\ UNCHANGED <<numVars, utfVars, parseVars, minVars, printVars, heapVars>>

\* refOf with the new reference node r.p to x
WithRef(r, x) == IF r.p = NULL THEN refOf ELSE [refOf EXCEPT ![r.p] = x]

\* no reference node below c points to a node that was deleted
NoDangling(h, c) ==
    \A r \in Subtree(h, c) :
        HasFlag(h.nodes[r].type, cJSON_IsReference) => refOf[r] # NULL

OCreateObject ==
    /\ MayHold(mem)
    /\ CalledAs(cJSON_CreateObject(ClearLog(mem)).h, <<"CreateObject">>, refOf)

OAddItemToObject(a, key, x, fuel) ==
    /\ IsObject(mem, a) /\ Addable(mem, a, x)
    /\ CalledAs(cJSON_AddItemToObject(Fuelled(fuel), a, key, x),
                <<"AddItemToObject", a, cJSON_strdup(Fuelled(fuel), key).p = NULL>>,
                refOf)

OAddItemToObjectCS(a, k, x) ==
    /\ IsObject(mem, a) /\ Addable(mem, a, x)
    /\ CalledAs(cJSON_AddItemToObjectCS(ClearLog(mem), a, -k, x),
                <<"AddItemToObjectCS", a>>, refOf)

OAddItemReferenceToArray(a, x, fuel) ==
    /\ IsContainer(mem, a) /\ x \in mem.live /\ NoDangling(mem, x)
    /\ CalledAs(cJSON_AddItemReferenceToArray(Fuelled(fuel), a, x),
                <<"AddItemReferenceToArray", a,
                  create_reference(Fuelled(fuel), x).p = NULL>>,
                WithRef(create_reference(Fuelled(fuel), x), x))

OAddItemReferenceToObject(a, key, x, fuel) ==
    /\ IsObject(mem, a) /\ x \in mem.live /\ NoDangling(mem, x)
    /\ CalledAs(cJSON_AddItemReferenceToObject(Fuelled(fuel), a, key, x),
                <<"AddItemReferenceToObject", a,
                  \/ create_reference(Fuelled(fuel), x).p = NULL
                  \/ cJSON_strdup(create_reference(Fuelled(fuel), x).h, key).p = NULL>>,
                WithRef(create_reference(Fuelled(fuel), x), x))

ODetachItemFromObject(a, key) ==
    /\ IsObject(mem, a) /\ MayHold(mem)
    /\ CalledAs(cJSON_DetachItemFromObject(ClearLog(mem), a, key).h,
                <<"DetachItemFromObject", a>>, refOf)

OReplaceItemInObject(a, key, x) ==
    /\ IsObject(mem, a) /\ Addable(mem, a, x)
    /\ CalledAs(cJSON_ReplaceItemInObject(ClearLog(mem), a, key, x),
                <<"ReplaceItemInObject", a>>, refOf)

\* cy_p64_cJSON_Duplicate(c, recurse) returned d
Duplicated(c, recurse, d) ==
    CalledAs(d.h, <<"Duplicate", c, recurse, d.p>>, refOf)

ODuplicate(c, recurse, fuel) ==
    /\ c \in mem.live /\ MayHold(mem) /\ NoDangling(mem, c)
    /\ Duplicated(c, recurse, cJSON_Duplicate(Fuelled(fuel), c, recurse))

\* the application deletes a tree it holds
ODelete(c) ==
    /\ IsRoot(mem, c)
    /\ CalledAs(cJSON_Delete(ClearLog(mem), c), <<"Delete", c>>, refOf)

---------------------------------------------------------------------------
(* Duplicating a node of a tree: SpecDup                                   *)
(*                                                                         *)
(* A text is parsed or a tree is built as in SpecPrint; items may also be  *)
(* added under a borrowed name, and references to nodes of the tree may be *)
(* added to its root.  Then cy_p64_cJSON_Duplicate is called on a node of  *)
(* the tree, its root or a node below, with or without recursion and with  *)
(* allocations that fail from some point of the call on, or never.  op     *)
(* names the call, its arguments and what it returned.                     *)

\* allocations of a call of cy_p64_cJSON_Duplicate that succeed before one fails
MaxDupFuel == 4

DupInit == PrintInit

\* a created item is added to the tree under the caller's constant name
DAddItemToObjectCS(b, k) ==
    /\ pPc = "built" /\ edits < MaxEdits
    /\ Kind(mem.nodes[pRoot].type) = cJSON_Object
    /\ mem' = ClearLog(cJSON_AddItemToObjectCS(CreateItem(mem, b).h, pRoot, -k,
                                               CreateItem(mem, b).p))
    /\ edits' = edits + 1
    /\ UNCHANGED <<pText, pRpe, pRnt, pPc, pRoot, pEnd, global_ep, calls, pPrinted,
                   pRoot2, op, refOf, numVars, utfVars, minVars, printVars, ownVars, heapVars>>

\* a reference to a node below the root is added to the root
DAddItemReferenceToArray(c) ==
    /\ pPc \in {"parsed", "built"} /\ edits < MaxEdits
    /\ pRoot # NULL /\ c \in mem.live \ {pRoot}
    /\ Kind(mem.nodes[pRoot].type) \in {cJSON_Array, cJSON_Object}
    /\ mem' = ClearLog(cJSON_AddItemReferenceToArray(mem, pRoot, c))
    /\ edits' = edits + 1
    /\ UNCHANGED <<pText, pRpe, pRnt, pPc, pRoot, pEnd, global_ep, calls, pPrinted,
                   pRoot2, op, refOf, numVars, utfVars, minVars, printVars, ownVars, heapVars>>

\* cy_p64_cJSON_Duplicate(c, recurse) returned d
DuplicateReturn(c, recurse, d) ==
    /\ mem' = [d.h EXCEPT !.fuel = -1]
    /\ op' = <<"Duplicate", c, recurse, d.p>>
    /\ pPc' = "duplicated"
    /\ UNCHANGED <<pText, pRpe, pRnt, pRoot, pEnd, global_ep, calls, pPrinted,
                   pRoot2, edits, refOf, numVars, utfVars, minVars, printVars,
                   ownVars, heapVars>>

DDuplicate(c, recurse, fuel) ==
    /\ pPc \in {"parsed", "built"} /\ c \in mem.live
    /\ DuplicateReturn(c, recurse, cJSON_Duplicate(Fuelled(fuel), c, recurse))

---------------------------------------------------------------------------
(* Editing the children of arrays and objects: SpecEdit                    *)
(*                                                                         *)
(* The application creates objects, adds childless ones to another as      *)
(* items or as members,                                                    *)
(* and calls cy_p64_cJSON_InsertItemInArray, cy_p64_cJSON_ReplaceItemInArray, *)
(* cy_p64_cJSON_ReplaceItemInObject and cy_p64_cJSON_GetArrayItem with     *)
(* indices below, inside and beyond the range of the container.  op names  *)
(* the call and its arguments, and for cy_p64_cJSON_GetArrayItem what it   *)
(* returned.                                                               *)

\* the sizes of the node pool and of the string pool of SpecEdit
EditNodes == 5
EditStrs == 2

EditKeys == {<<ch.a>>}
EditLookupKeys == {<<ch.A>>, <<ch.b>>}
\* the indices the application passes: negative, in range and beyond
EditIndices == -1..EditNodes - 1

EditInit ==
    /\ mem = EmptyHeap(EditNodes, EditStrs, -1)
    /\ op = <<"init">>
    /\ refOf = [i \in 1..EditNodes |-> NULL]

\* the items the application adds to container a: the ones it holds that have
\* no children
Item(h, a, x) == Addable(h, a, x) /\ x # a /\ h.nodes[x].child = NULL

\* the bookkeeping of a call that left heap h
Edited(h, tag) ==
    /\ mem' = ClearLog(h)
    /\ op' = tag
    /\ UNCHANGED <<refOf, numVars, utfVars, parseVars, minVars, printVars, ownVars, heapVars>>

ECreateObject == MayHold(mem) /\ Edited(cJSON_CreateObject(mem).h, <<"call">>)

EAddItemToArray(a, x) ==
    /\ IsContainer(mem, a) /\ Item(mem, a, x)
    /\ Edited(cJSON_AddItemToArray(mem, a, x), <<"call">>)

EAddItemToObject(a, key, x) ==
    /\ IsObject(mem, a) /\ Item(mem, a, x)
    /\ Edited(cJSON_AddItemToObject(mem, a, key, x), <<"call">>)

EInsertItemInArray(a, which, x) ==
    /\ IsContainer(mem, a) /\ Item(mem, a, x)
    /\ Edited(cJSON_InsertItemInArray(mem, a, which, x),
              <<"InsertItemInArray", a, which, x>>)

EReplaceItemInArray(a, which, x) ==
    /\ IsContainer(mem, a) /\ Item(mem, a, x)
    /\ Edited(cJSON_ReplaceItemInArray(mem, a, which, x),
              <<"ReplaceItemInArray", a, which, x>>)

EReplaceItemInObject(a, key, x) ==
    /\ IsObject(mem, a) /\ Item(mem, a, x)
    /\ Edited(cJSON_ReplaceItemInObject(mem, a, key, x),
              <<"ReplaceItemInObject", a, key, x>>)

EGetArrayItem(a, i) ==
    /\ IsContainer(mem, a)
    /\ Edited(mem, <<"GetArrayItem", a, i, cJSON_GetArrayItem(mem, a, i)>>)

---------------------------------------------------------------------------
(* The allocator (cy_p64_malloc.c)                                         *)
(*                                                                         *)
(* The static heap buffer is a sequence of 32-bit words; an address is a   *)
(* number of bytes, the buffer starts at cy_p64_heap_buffer and a block's  *)
(* meta data (size, next, prev, free_ptr) are the four words at its        *)
(* address, its data the words behind them.  A pool h holds the words      *)
(* (h.mem), cy_p64_heap_pool.base and .shm_break, and h.fault, which       *)
(* records an access outside the buffer or a walk that does not end.       *)
(* Request sizes are uint32_t values kept as two limbs, low limb first.    *)

\* the number of words of the heap buffer
HeapWords == 20
\* CY_P64_HEAP_DATA_SIZE, configurable (#ifndef): the buffer's size in bytes
CY_P64_HEAP_DATA_SIZE == 4 * HeapWords
\* the address the linker gives cy_p64_heap_buffer (above every block size)
cy_p64_heap_buffer == 256
CY_P64_META_DATA_SIZE == 16
CY_P64_MIN_BLOCK_SIZE == 4

\* the offsets of the fields of struct cy_p64_meta_data_t
off_size == 0
off_next == 4
off_prev == 8
off_free_ptr == 12

EmptyPool ==
    [mem |-> [i \in 1..HeapWords |-> 0], base |-> NULL,
     shm_break |-> cy_p64_heap_buffer, fault |-> "none"]

\* a word of the buffer
InBuffer(a) ==
    /\ a >= cy_p64_heap_buffer
    /\ a + 4 <= cy_p64_heap_buffer + 4 * HeapWords
    /\ a % 4 = 0

WordAt(a) == (a - cy_p64_heap_buffer) \div 4 + 1

\* the word read at address a (0 for what lies outside the buffer)
Rd(h, a) == IF InBuffer(a) THEN h.mem[WordAt(a)] ELSE 0

\* the pool after an access to the word at a: an access outside the buffer
\* is recorded
Touch(h, a) ==
    IF InBuffer(a) \/ h.fault # "none" THEN h ELSE [h EXCEPT !.fault = "out_of_bounds"]

\* the word at a is written
Wr(h, a, v) ==
    IF h.fault # "none" THEN h
    ELSE IF InBuffer(a) THEN [h EXCEPT !.mem[WordAt(a)] = v]
    ELSE [h EXCEPT !.fault = "out_of_bounds"]

\* uint32_t arithmetic on limbs
U32(n) == <<n % LimbBase, n \div LimbBase>>

U32Dec(x) ==
    IF x[1] > 0 THEN <<x[1] - 1, x[2]>>
    ELSE IF x[2] > 0 THEN <<LimbMax, x[2] - 1>>
    ELSE <<LimbMax, LimbMax>>

U32Add(x, n) ==
    <<(x[1] + n) % LimbBase, (x[2] + (x[1] + n) \div LimbBase) % LimbBase>>

\* (x >> 2u) << 2u
U32ClearLow2(x) == <<x[1] - (x[1] % 4), x[2]>>

\* CY_P64_ALIGN_TO_4(x) == ((((x) - 1u) >> 2u) << 2u) + 4u
CY_P64_ALIGN_TO_4(x) == U32Add(U32ClearLow2(U32Dec(x)), 4)

\* x < n for a uint32_t x and a small n
U32Less(x, n) == x[2] = 0 /\ x[1] < n

\* the product of two 16-bit values as a uint32_t
Mul16(a, b) ==
    LET t == (a \div 256) * b
        low == (t % 256) * 256 + (a % 256) * b
    IN  <<low % LimbBase, t \div 256 + low \div LimbBase>>

\* cy_p64_is_u32_multiplication_safe: (uint64_t)x * y <= UINT32_MAX
cy_p64_is_u32_multiplication_safe(x, y) ==
    LET p == Mul16(x[1], y[1])
    IN  /\ x[2] = 0 \/ y[2] = 0
        /\ x[2] > 0 => (y[1] = 0 \/ x[2] <= (LimbMax - p[2]) \div y[1])
        /\ y[2] > 0 => (x[1] = 0 \/ y[2] <= (LimbMax - p[2]) \div x[1])

\* nelem * elsize as a uint32_t, for a product that is safe
U32Mul(x, y) ==
    LET p == Mul16(x[1], y[1])
    IN  <<p[1], p[2] + x[2] * y[1] + x[1] * y[2]>>

\* cy_p64_find_block: [b, last, hang]; the walk is given up (hang) after more
\* steps than the buffer has words, which a list with a cycle takes
RECURSIVE find_block_loop(_, _, _, _, _)
find_block_loop(h, b, last, size, k) ==
    IF k = 0 THEN [b |-> NULL, last |-> last, hang |-> TRUE]
    ELSE IF Rd(h, b + off_free_ptr) = NULL /\ Rd(h, b + off_size) >= size
    THEN [b |-> b, last |-> last, hang |-> FALSE]
    ELSE IF Rd(h, b + off_next) = NULL
    THEN [b |-> NULL, last |-> b, hang |-> FALSE]
    ELSE find_block_loop(h, Rd(h, b + off_next), b, size, k - 1)

cy_p64_find_block(h, last, size) ==
    IF h.base = NULL THEN [b |-> NULL, last |-> last, hang |-> FALSE]
    ELSE find_block_loop(h, h.base, last, size, HeapWords + 1)

\* cy_p64_sbrk: [h, p]
cy_p64_sbrk(h, size) ==
    LET new_break == h.shm_break + size
    IN  IF /\ new_break >= cy_p64_heap_buffer
           /\ new_break <= cy_p64_heap_buffer + CY_P64_HEAP_DATA_SIZE
        THEN [h |-> [h EXCEPT !.shm_break = new_break], p |-> new_break]
        ELSE [h |-> h, p |-> NULL]

\* the fields extend_heap writes into the new block b
extend_heap_fill(h, b, last, size) ==
    LET h1 == Wr(h, b + off_size, size)
        h2 == Wr(h1, b + off_next, NULL)
        h3 == Wr(h2, b + off_prev, last)
        h4 == Wr(h3, b + off_free_ptr, b + CY_P64_META_DATA_SIZE)
    IN  IF last # NULL THEN Wr(h4, last + off_next, b) ELSE h4

\* cy_p64_extend_heap: [h, p]
cy_p64_extend_heap(h, last, size) ==
    LET b == cy_p64_sbrk(h, 0).p
        r == cy_p64_sbrk(h, CY_P64_META_DATA_SIZE + size)
    IN  IF b = NULL \/ r.p = NULL THEN [h |-> h, p |-> NULL]
        ELSE [h |-> extend_heap_fill(r.h, b, last, size), p |-> b]

\* a cy_p64_split_block that leaves the prev of the block behind as it was
cy_p64_split_block_noprev(h, b, size) ==
    LET new == b + CY_P64_META_DATA_SIZE + size
        h1 == Wr(h, new + off_size, Rd(h, b + off_size) - size - CY_P64_META_DATA_SIZE)
        h2 == Wr(h1, new + off_next, Rd(h, b + off_next))
        h3 == Wr(h2, new + off_prev, b)
        h4 == Wr(h3, new + off_free_ptr, NULL)
        h5 == Wr(h4, b + off_size, size)
    IN  Wr(h5, b + off_next, new)

\* cy_p64_split_block
cy_p64_split_block(h, b, size) ==
    LET new == b + CY_P64_META_DATA_SIZE + size
        h1 == Wr(h, new + off_size, Rd(h, b + off_size) - size - CY_P64_META_DATA_SIZE)
        h2 == Wr(h1, new + off_next, Rd(h, b + off_next))
        h3 == Wr(h2, new + off_prev, b)
        h4 == Wr(h3, new + off_free_ptr, NULL)
        h5 == Wr(h4, b + off_size, size)
        h6 == Wr(h5, b + off_next, new)
    IN  IF Rd(h6, new + off_next) # NULL
        THEN Wr(h6, Rd(h6, new + off_next) + off_prev, new) ELSE h6

\* cy_p64_fusion: the pool (the block returned is b itself)
cy_p64_fusion(h, b) ==
    LET next == Rd(h, b + off_next)
        h0 == Touch(Touch(h, b + off_next), next + off_free_ptr)
    IN  IF next = NULL THEN Touch(h, b + off_next)
        ELSE IF Rd(h, next + off_free_ptr) # NULL THEN h0
        ELSE LET h1 == Wr(h0, b + off_size,
                          Rd(h, b + off_size) + CY_P64_META_DATA_SIZE + Rd(h, next + off_size))
                 h2 == Wr(h1, b + off_next, Rd(h, next + off_next))
             IN  IF Rd(h2, b + off_next) # NULL
                 THEN Wr(h2, Rd(h2, b + off_next) + off_prev, b) ELSE h2

cy_p64_get_block(p) == p - CY_P64_META_DATA_SIZE

\* cy_p64_is_addr_valid
cy_p64_is_addr_valid(h, p) ==
    /\ h.base # NULL /\ p # NULL
    /\ p > h.base
    /\ p < cy_p64_sbrk(h, 0).p
    /\ p = Rd(h, cy_p64_get_block(p) + off_free_ptr)

\* cy_p64_malloc with a block found or not: [h, p]
malloc_found(h, f, s) ==
    IF f.hang THEN [h |-> [h EXCEPT !.fault = "hang"], p |-> NULL]
    ELSE IF f.b # NULL
    THEN LET h1 == IF Rd(h, f.b + off_size) - s
                        >= CY_P64_META_DATA_SIZE + CY_P64_MIN_BLOCK_SIZE
                   THEN cy_p64_split_block(h, f.b, s) ELSE h
         IN  [h |-> Wr(h1, f.b + off_free_ptr, f.b + CY_P64_META_DATA_SIZE),
              p |-> f.b + CY_P64_META_DATA_SIZE]
    ELSE LET e == cy_p64_extend_heap(h, f.last, s)
         IN  [h |-> e.h,
              p |-> IF e.p = NULL THEN NULL ELSE e.p + CY_P64_META_DATA_SIZE]

\* cy_p64_malloc for the first block
malloc_first(h, s) ==
    LET e == cy_p64_extend_heap(h, NULL, s)
    IN  IF e.p = NULL THEN [h |-> e.h, p |-> NULL]
        ELSE [h |-> [e.h EXCEPT !.base = e.p], p |-> e.p + CY_P64_META_DATA_SIZE]

\* cy_p64_malloc(size): [h, p]
cy_p64_malloc(h, size) ==
    LET s == CY_P64_ALIGN_TO_4(size)
    IN  IF ~U32Less(s, CY_P64_HEAP_DATA_SIZE) THEN [h |-> h, p |-> NULL]
        ELSE IF h.base # NULL
        THEN malloc_found(h, cy_p64_find_block(h, h.base, s[1]), s[1])
        ELSE malloc_first(h, s[1])

\* memset(res, 0, n) for a multiple n of four
RECURSIVE memset0(_, _, _)
memset0(h, res, n) ==
    IF n <= 0 THEN h ELSE memset0(Wr(h, res, 0), res + 4, n - 4)

\* cy_p64_calloc(nelem, elsize): [h, p]
cy_p64_calloc(h, nelem, elsize) ==
    IF ~cy_p64_is_u32_multiplication_safe(nelem, elsize) THEN [h |-> h, p |-> NULL]
    ELSE IF U32Mul(nelem, elsize) = <<0, 0>> THEN [h |-> h, p |-> NULL]
    ELSE LET r == cy_p64_malloc(h, U32Mul(nelem, elsize))
         IN  IF r.p = NULL THEN r
             ELSE [h |-> memset0(r.h, r.p, U32Mul(nelem, elsize)[1]), p |-> r.p]

\* cy_p64_free, the last block released: the break is lowered to b
free_release(h, b) ==
    LET prev == Rd(h, b + off_prev)
        h0 == Touch(h, b + off_prev)
        h1 == IF prev # NULL THEN Wr(h0, prev + off_next, NULL)
              ELSE [h0 EXCEPT !.base = NULL]
    IN  IF h1.fault # "none" THEN h1 ELSE [h1 EXCEPT !.shm_break = b]

\* cy_p64_free from the fusion with the next block on, b the block that
\* the fusion with the previous block left
free_forward(h, b) ==
    IF Rd(h, b + off_next) # NULL THEN cy_p64_fusion(Touch(h, b + off_next), b)
    ELSE free_release(Touch(h, b + off_next), b)

\* cy_p64_free of a pointer that passed the validation
free_valid(h, p) ==
    LET b == cy_p64_get_block(p)
        h1 == Wr(h, b + off_free_ptr, NULL)
        prev == Rd(h1, b + off_prev)
        h2 == IF prev # NULL THEN Touch(Touch(h1, b + off_prev), prev + off_free_ptr)
              ELSE Touch(h1, b + off_prev)
    IN  IF prev # NULL /\ Rd(h1, prev + off_free_ptr) = NULL
        THEN free_forward(cy_p64_fusion(h2, prev), prev)
        ELSE free_forward(h2, b)

\* cy_p64_free(p)
cy_p64_free(h, p) ==
    IF cy_p64_is_addr_valid(h, p) THEN free_valid(h, p) ELSE h

---------------------------------------------------------------------------
(* Using the allocator: SpecHeap and SpecFree                              *)
(*                                                                         *)
(* SpecHeap: the application calls cy_p64_malloc and cy_p64_calloc with    *)
(* sizes from zero to beyond the buffer and to the end of uint32_t, writes *)
(* into the blocks it holds, and passes to cy_p64_free NULL or a pointer   *)
(* it holds.  SpecFree: it passes to cy_p64_free any word address from     *)
(* below the buffer to behind it.  hcall names the call, its arguments and *)
(* what it returned.  Either application makes at most MaxHeapCalls calls. *)

\* the request sizes: 0, 1, 24, the size of the buffer, and 0xFFFFFFFC and
\* 0xFFFFFFFD
MallocSizes ==
    {U32(0), U32(1), U32(24), U32(CY_P64_HEAP_DATA_SIZE),
     <<LimbMax - 3, LimbMax>>, <<LimbMax - 2, LimbMax>>}

\* the arguments of cy_p64_calloc: 0, 1 and 0x10000 elements of 4 or 0x10000
\* bytes
CallocCounts == {U32(0), U32(1), <<0, 1>>}
CallocSizes == {U32(4), <<0, 1>>}

\* the number of calls the application makes
MaxHeapCalls == 7

\* the word addresses from the word below the buffer to the word behind it
Addresses == {cy_p64_heap_buffer + 4 * k : k \in -1..HeapWords}

HeapIdle == pool = EmptyPool /\ held = {} /\ hcall = <<"idle">>

HeapInit == pool = EmptyPool /\ held = {} /\ hcall = <<"init">>

\* the bookkeeping of a call that left pool h and the application holding ptrs
HeapCalled(h, ptrs, call) ==
    /\ pool.fault = "none"
    /\ steps < MaxHeapCalls
    /\ steps' = steps + 1
    /\ pool' = h
    /\ held' = ptrs
    /\ hcall' = call
    /\ UNCHANGED <<numVars, utfVars, treeVars, parseVars, minVars, printVars>>

\* a pointer returned is one more the application holds
Holding(p) == IF p = NULL THEN held ELSE held \cup {p}

MallocReturn(size, r) == HeapCalled(r.h, Holding(r.p), <<"malloc", size, r.p>>)

HMalloc(size) == MallocReturn(size, cy_p64_malloc(pool, size))

CallocReturn(nelem, elsize, r) ==
    HeapCalled(r.h, Holding(r.p), <<"calloc", nelem, elsize, r.p>>)

HCalloc(nelem, elsize) == CallocReturn(nelem, elsize, cy_p64_calloc(pool, nelem, elsize))

\* the application stores, in the first word of a block it holds, the
\* address of the word behind it
HWrite(p) ==
    /\ p \in held
    /\ Rd(pool, cy_p64_get_block(p) + off_size) >= 4
    /\ HeapCalled(Wr(pool, p, p + 4), held, <<"write", p>>)

\* cy_p64_free of NULL or of a pointer the application holds
HFree(p) ==
    /\ p \in held \cup {NULL}
    /\ HeapCalled(cy_p64_free(pool, p), held \ {p}, <<"free", p>>)

\* cy_p64_free of any address
HFreeAny(p) == HeapCalled(cy_p64_free(pool, p), held \ {p}, <<"free", p>>)

---------------------------------------------------------------------------
(* Claims about the codecs                                                 *)

\* the decimal digits of a uint32_t, most significant first ("0" for zero)
RECURSIVE DecimalRec(_)
DecimalRec(v) ==
    IF v = <<0, 0>> THEN <<>>
    ELSE LET lo == (v[2] % 10) * LimbBase + v[1]
         IN  DecimalRec(<<lo \div 10, v[2] \div 10>>) \o <<ch.zero + (lo % 10)>>

DecimalOf(v) == IF v = <<0, 0>> THEN <<ch.zero>> ELSE DecimalRec(v)

RECURSIVE DigitRun(_, _)
DigitRun(text, p) ==
    IF IsDigit(At(text, p)) THEN <<At(text, p)>> \o DigitRun(text, p + 1) ELSE <<>>

RECURSIVE StripZeros(_)
StripZeros(ds) ==
    IF ds # <<>> /\ Head(ds) = ch.zero THEN StripZeros(Tail(ds)) ELSE ds

RECURSIVE LexGe(_, _)
LexGe(xs, ys) ==
    IF xs = <<>> THEN TRUE
    ELSE IF Head(xs) # Head(ys) THEN Head(xs) > Head(ys)
    ELSE LexGe(Tail(xs), Tail(ys))

Uint32MaxDigits == Digits(<<4, 2, 9, 4, 9, 6, 7, 2, 9, 5>>)

\* the literal at the start of the text, clamped into [0, 4294967295], in decimal
Clamped(text) ==
    LET neg == At(text, 1) = ch.minus
        sig == StripZeros(DigitRun(text, IF neg THEN 2 ELSE 1))
    IN  IF neg \/ sig = <<>> THEN <<ch.zero>>
        ELSE IF Len(sig) > 10 \/ (Len(sig) = 10 /\ LexGe(sig, Uint32MaxDigits))
        THEN Uint32MaxDigits
        ELSE sig

\* C6: every literal the number parser accepts yields a Number whose value
\* is the literal clamped into [0, 4294967295], never a value wrapped
\* modulo 2^32, and the parser stops right after the literal's last digit.
C6_NumberSaturation ==
    (numPc = "parsed" /\ numEnd # NULL) =>
        /\ numItem.type = cJSON_Number
        /\ DecimalOf(numItem.valueint) = Clamped(numText)

\* the literal 4294967296 has been parsed to 4294967295
C6_Witness ==
    /\ numPc = "parsed"
    /\ numText = Digits(<<4, 2, 9, 4, 9, 6, 7, 2, 9, 6>>)
    /\ numItem.valueint = UINT32_MAX

\* the standard UTF-8 encoding of a codepoint
UTF8(cp) ==
    IF cp < 128 THEN <<cp>>
    ELSE IF cp < 2048 THEN <<192 + cp \div 64, 128 + (cp % 64)>>
    ELSE IF cp < 65536
    THEN <<224 + cp \div 4096, 128 + ((cp \div 64) % 64), 128 + (cp % 64)>>
    ELSE <<240 + cp \div 262144, 128 + ((cp \div 4096) % 64),
           128 + ((cp \div 64) % 64), 128 + (cp % 64)>>

\* the code unit written as the escape at p, or -1
UnitAt(text, p) ==
    LET us == {v \in FirstUnits \cup SecondUnits :
                  \E up \in BOOLEAN : SubSeq(text, p, p + 5) = Escape(v, up)}
    IN  IF p + 5 <= Len(text) /\ us # {} THEN CHOOSE v \in us : TRUE ELSE -1

IsHigh(v) == v >= 55296 /\ v <= 56319
IsLow(v) == v >= 56320 /\ v <= 57343

\* the codepoint a valid escape at the start of the text stands for, or -1;
\* the NUL code unit, which the parser rejects on purpose, is left out
ValidCodepoint(text) ==
    LET u1 == UnitAt(text, 1)
        u2 == UnitAt(text, 7)
    IN  IF u1 <= 0 \/ IsLow(u1) THEN -1
        ELSE IF ~IsHigh(u1) THEN u1
        ELSE IF IsLow(u2) THEN 65536 + ((u1 % 1024) * 1024) + (u2 % 1024)
        ELSE -1

\* C7: for every valid \uXXXX escape (a non-surrogate code unit, or a high
\* surrogate followed by a low surrogate) the string parser appends exactly
\* the standard UTF-8 encoding of the codepoint, every byte of it written.
C7_Utf8Encoding ==
    (utfPc = "done" /\ ValidCodepoint(utfText) >= 0) =>
        /\ utfRet # 0
        /\ utfOut = UTF8(ValidCodepoint(utfText))

---------------------------------------------------------------------------
(* Claims about trees                                                      *)

\* the string buffers the nodes of S own: the texts of those that are not
\* references, and the names that are not constant
StrsOwnedBy(h, S) ==
    {h.nodes[n].valuestring :
        n \in {x \in S : /\ ~HasFlag(h.nodes[x].type, cJSON_IsReference)
                         /\ h.nodes[x].valuestring # NULL}}
    \cup
    {h.nodes[n].string :
        n \in {x \in S : /\ ~HasFlag(h.nodes[x].type, cJSON_StringIsConst)
                         /\ h.nodes[x].string # NULL}}

\* the string buffers cy_p64_cJSON_Delete(c) is to release
OwnedStrs(h, c) == StrsOwnedBy(h, OwnedFrom(h, c))

Released(log, what) == {log[i][2] : i \in {j \in DOMAIN log : log[j][1] = what}}

OnceEach(log) == \A i, j \in DOMAIN log : log[i] = log[j] => i = j

\* C3: cy_p64_cJSON_Delete(c) releases every block the tree owns exactly
\* once - the nodes, the texts and the duplicated names - and nothing else:
\* not what a reference node points at, and no constant name.
C3_DeleteReleasesOwned ==
    [][op'[1] = "Delete" =>
          /\ mem'.fault = "none"
          /\ OnceEach(mem'.log)
          /\ Released(mem'.log, "node") = OwnedFrom(mem, op'[2])
          /\ Released(mem'.log, "str") = OwnedStrs(mem, op'[2])
          /\ mem'.live = mem.live \ OwnedFrom(mem, op'[2])
          /\ mem'.slive = mem.slive \ OwnedStrs(mem, op'[2])]_vars

\* a tree with a reference in it was deleted, and nodes and a string went
C3_Witness ==
    /\ op[1] = "Delete"
    /\ op[3] # {}
    /\ Cardinality(Released(mem.log, "node")) >= 2
    /\ Released(mem.log, "str") # {}
    /\ mem.slive # {}

\* what Delete(arr) must leave of node n: its subtree allocated and unchanged,
\* its strings allocated, and a later Delete(n) without a fault
Intact(h, hAfter, n) ==
    /\ Subtree(h, n) \subseteq hAfter.live
    /\ \A x \in Subtree(h, n) : hAfter.nodes[x] = h.nodes[x]
    /\ StrsOwnedBy(h, Subtree(h, n)) \subseteq hAfter.slive
    /\ \A p \in StrsOwnedBy(h, Subtree(h, n)) \cap h.slive :
          hAfter.strs[p] = h.strs[p]
    /\ IsRoot(hAfter, n) =>
          LET d == cJSON_Delete(ClearLog(hAfter), n)
          IN  d.fault = "none" /\ OnceEach(d.log)

\* C4: after cy_p64_cJSON_AddItemReferenceToArray(arr, node), deleting arr
\* leaves node and its subtree allocated and unchanged, and deleting node
\* afterwards releases nothing twice.
C4_ReferenceSafety ==
    [][op'[1] = "Delete" =>
          \A r \in OwnedFrom(mem, op'[2]) :
              (refOf[r] # NULL /\ refOf[r] \notin OwnedFrom(mem, op'[2])) =>
                  Intact(mem, mem', refOf[r])]_vars

\* an array holding a reference was deleted; the referenced node is a tree
\* of its own with a named child
C4_Witness ==
    /\ op[1] = "Delete"
    /\ \E n \in op[3] :
          /\ n \in mem.live
          /\ IsRoot(mem, n)
          /\ mem.nodes[n].child \in mem.live
          /\ mem.nodes[mem.nodes[n].child].string \in mem.slive

\* the children of a container from c on, at most k of them
RECURSIVE Siblings(_, _, _)
Siblings(h, c, k) ==
    IF c = NULL \/ k = 0 \/ c \notin h.live THEN {}
    ELSE {c} \cup Siblings(h, h.nodes[c].next, k - 1)

\* the list from c on ends within k links, through allocated nodes only
RECURSIVE Ends(_, _, _)
Ends(h, c, k) ==
    \/ c = NULL
    \/ /\ k > 0
       /\ c \in h.live
       /\ Ends(h, h.nodes[c].next, k - 1)

WellLinked(h, a) ==
    LET first == h.nodes[a].child
        n == Cardinality(h.live)
        sibs == Siblings(h, first, n)
    IN  /\ Ends(h, first, n)
        /\ first # NULL => h.nodes[first].prev = NULL
        /\ \A x, y \in sibs : (h.nodes[y].prev = x) <=> (h.nodes[x].next = y)

\* C5: after every Add, Insert, Detach, Delete and Replace call the child
\* list of every array and object is a well-formed doubly linked list: the
\* first child has no prev, b is a's next exactly when a is b's prev, and
\* the list ends.
C5_SiblingLinks ==
    \A a \in mem.live :
        ~HasFlag(mem.nodes[a].type, cJSON_IsReference) => WellLinked(mem, a)

\* a container with three children
C5_Witness ==
    \E a \in mem.live :
        Cardinality(Siblings(mem, mem.nodes[a].child, Cardinality(mem.live))) = 3

---------------------------------------------------------------------------
(* Claims about parsing and printing                                       *)

\* the error output of the last parse call: the caller's return_parse_end
\* if one was supplied, else what cy_p64_cJSON_GetErrorPtr returns
ErrOut == IF pRpe THEN pEnd ELSE global_ep.pos

SameName(h, a, b) ==
    IF h.nodes[a].string = NULL \/ h.nodes[b].string = NULL
    THEN h.nodes[a].string = h.nodes[b].string
    ELSE StrBytes(h, h.nodes[a].string) = StrBytes(h, h.nodes[b].string)

SameText(h, a, b) ==
    IF h.nodes[a].valuestring = NULL \/ h.nodes[b].valuestring = NULL
    THEN h.nodes[a].valuestring = h.nodes[b].valuestring
    ELSE StrBytes(h, h.nodes[a].valuestring) = StrBytes(h, h.nodes[b].valuestring)

\* the trees at a and at b have the same kinds, values, child order and
\* member names
RECURSIVE SameValue(_, _, _)
RECURSIVE SameList(_, _, _, _)
SameValue(h, a, b) ==
    LET kind == Kind(h.nodes[a].type)
    IN  /\ Kind(h.nodes[b].type) = kind
        /\ kind = cJSON_Number => h.nodes[a].valueint = h.nodes[b].valueint
        /\ kind \in {cJSON_String, cJSON_Raw} => SameText(h, a, b)
        /\ kind \in {cJSON_Array, cJSON_Object} =>
              SameList(h, h.nodes[a].child, h.nodes[b].child, kind = cJSON_Object)

SameList(h, a, b, members) ==
    IF a = NULL \/ b = NULL THEN a = b
    ELSE /\ members => SameName(h, a, b)
         /\ SameValue(h, a, b)
         /\ SameList(h, h.nodes[a].next, h.nodes[b].next, members)

\* C1: parsing the output of cy_p64_cJSON_PrintUnformatted gives a tree with
\* the kinds, child order, member names and values of the printed tree, for
\* every tree made by the parser or by the Create and Add functions.
C1_RoundTrip ==
    pPc = "reparsed" => pRoot2 # NULL /\ SameValue(mem, pRoot, pRoot2)

\* no Raw node in the tree, and every member of an object has a name
Plain(h, c) ==
    \A x \in Subtree(h, c) :
        /\ Kind(h.nodes[x].type) # cJSON_Raw
        /\ Kind(h.nodes[x].type) = cJSON_Object =>
              \A y \in Siblings(h, h.nodes[x].child, Cardinality(h.live)) :
                  h.nodes[y].string # NULL

\* C1, with the trees it holds for: the round trip gives an equal tree when
\* the printed tree has no Raw node and no member without a name.
C1_RoundTripPlain ==
    (pPc = "reparsed" /\ Plain(mem, pRoot)) =>
        pRoot2 # NULL /\ SameValue(mem, pRoot, pRoot2)

\* a tree with a string that needs escapes has made the round trip
C1_Witness ==
    /\ pPc = "reparsed"
    /\ Plain(mem, pRoot)
    /\ pRoot2 # NULL
    /\ \E x \in Subtree(mem, pRoot) \ {pRoot} :
          /\ Kind(mem.nodes[x].type) = cJSON_String
          /\ \E i \in DOMAIN StrBytes(mem, mem.nodes[x].valuestring) :
                StrBytes(mem, mem.nodes[x].valuestring)[i] \in {ch.quote, ch.lf, 1}

\* C2: when cy_p64_cJSON_ParseWithOpts fails, whatever the text and wherever
\* an allocation failed, every block the call allocated has been freed, once,
\* and no tree is returned.
C2_ParseAtomic ==
    (pPc = "parsed" /\ pRoot = NULL) =>
        /\ mem.live = {}
        /\ mem.slive = {}
        /\ mem.fault = "none"
        /\ OnceEach(mem.log)

\* an allocation failed after nodes and strings had been allocated
C2_Witness ==
    /\ pPc = "parsed"
    /\ pRoot = NULL
    /\ mem.fuel = 0
    /\ ErrOut = NULL
    /\ Cardinality(Released(mem.log, "node")) >= 3
    /\ Cardinality(Released(mem.log, "str")) >= 2

\* the escape characters of JSON
EscapeChars == {ch.b, ch.f, ch.n, ch.r, ch.t, ch.quote, ch.bslash, ch.slash, ch.u}

\* the string literal that holds position p is closed by a quote
RECURSIVE Terminated(_, _)
Terminated(text, p) ==
    IF p > Len(text) THEN FALSE
    ELSE IF text[p] = ch.quote THEN TRUE
    ELSE IF text[p] = ch.bslash THEN p + 1 <= Len(text) /\ Terminated(text, p + 2)
    ELSE Terminated(text, p + 1)

\* the backslash of the first escape, from p on in a string literal, that is
\* a surrogate out of place or has a character that is no escape character;
\* 0 if there is none, or if a \u that is no code unit at all comes first
RECURSIVE FirstOffending(_, _)
FirstOffending(text, p) ==
    IF p > Len(text) \/ text[p] = ch.quote THEN 0
    ELSE IF text[p] # ch.bslash THEN FirstOffending(text, p + 1)
    ELSE IF At(text, p + 1) \notin EscapeChars THEN p
    ELSE IF At(text, p + 1) # ch.u THEN FirstOffending(text, p + 2)
    ELSE IF UnitAt(text, p) <= 0 THEN 0
    ELSE IF IsLow(UnitAt(text, p)) THEN p
    ELSE IF ~IsHigh(UnitAt(text, p)) THEN FirstOffending(text, p + 6)
    ELSE IF IsLow(UnitAt(text, p + 6)) THEN FirstOffending(text, p + 12)
    ELSE p

\* what may stand in front of a string literal
LiteralContexts ==
    {<<>>, <<ch.sp>>, <<ch.lbrack>>, <<ch.lbrack>> \o Digit(1) \o <<ch.comma>>,
     <<ch.lbrace>>, <<ch.lbrace>> \o Key(ch.a)}

\* the text is pre, then a closed string literal with an offending escape
OffendingIn(text, pre) ==
    /\ Len(pre) < Len(text)
    /\ SubSeq(text, 1, Len(pre)) = pre
    /\ text[Len(pre) + 1] = ch.quote
    /\ FirstOffending(text, Len(pre) + 2) > 0
    /\ Terminated(text, FirstOffending(text, Len(pre) + 2))

\* C8: a string literal with a low surrogate first, a high surrogate without
\* a low surrogate after it, or an escape character that is none of
\* b f n r t " \ / u makes the parse fail, and the error position is the
\* backslash of that escape.
C8_BadEscapePosition ==
    (pPc = "parsed" /\ mem.fuel = -1) =>
        \A pre \in LiteralContexts :
            OffendingIn(pText, pre) =>
                /\ pRoot = NULL
                /\ ErrOut = FirstOffending(pText, Len(pre) + 2)

\* a surrogate out of place inside an array or an object was reported
C8_Witness ==
    /\ pPc = "parsed"
    /\ mem.fuel = -1
    /\ \E pre \in LiteralContexts \ {<<>>} :
          /\ OffendingIn(pText, pre)
          /\ IsLow(UnitAt(pText, FirstOffending(pText, Len(pre) + 2)))
          /\ ErrOut = FirstOffending(pText, Len(pre) + 2)

\* C9: when cy_p64_cJSON_ParseWithOpts fails and no allocation failed, the
\* error output is not null and points into the text (its terminator
\* included).
C9_ErrorPosition ==
    (pPc = "parsed" /\ pRoot = NULL /\ mem.fuel = -1) =>
        /\ ErrOut \in 1..(Len(pText) + 1)
        /\ ~pRpe => global_ep.call = calls

\* C10: cy_p64_cJSON_GetErrorPtr gives what the last parse call without a
\* return_parse_end left: nothing after a success, the failure position in
\* that call's text after a failure; a call with a return_parse_end, and
\* everything else, leaves it alone.
C10_LastErrorSlot ==
    [][/\ calls' = calls => global_ep' = global_ep
       /\ calls' # calls =>
             IF pRpe' THEN global_ep' = global_ep
             ELSE IF pRoot' # NULL THEN global_ep' = NULL_EP
             ELSE /\ global_ep'.call = calls'
                  /\ global_ep'.pos \in 1..(Len(pText') + 1)]_vars

---------------------------------------------------------------------------
(* Claims about what a parse call accepts and builds                       *)

IsPrefix(v, text) == Len(v) <= Len(text) /\ SubSeq(text, 1, Len(v)) = v

\* complete values, and whether the bytes behind one could still belong to it
CompleteValues ==
    {Digit(1), Digit(1) \o Digit(2), Literal_null, Literal_true, Quoted(<<ch.a>>),
     <<ch.lbrack, ch.rbrack>>, <<ch.lbrack>> \o Digit(1) \o <<ch.rbrack>>,
     <<ch.lbrace>> \o Key(ch.a) \o Digit(1) \o <<ch.rbrace>>}

Remainder(v, text) == SubSeq(text, Len(v) + 1, Len(text))

ValueThenRemainder(v, text) ==
    /\ IsPrefix(v, text)
    /\ ~(IsDigit(v[1]) /\ IsDigit(At(text, Len(v) + 1)))

Above32(r) == {i \in 1..Len(r) : r[i] > 32}

\* C11: for a text that is a valid value followed by a remainder r, a call
\* with require_null_terminated succeeds iff every byte of r is <= 0x20 and
\* otherwise returns no tree with the error position at the first byte of r
\* above 0x20; a call without the flag succeeds, and the end it returns is
\* the first byte after the value
C11_FullConsumption ==
    (pPc = "parsed" /\ mem.fuel = -1) =>
        \A v \in CompleteValues :
            ValueThenRemainder(v, pText) =>
                IF pRnt
                THEN /\ (pRoot # NULL) <=> (Above32(Remainder(v, pText)) = {})
                     /\ pRoot = NULL =>
                            ErrOut = Len(v) + MinOf(Above32(Remainder(v, pText)))
                ELSE /\ pRoot # NULL
                     /\ pRpe => pEnd = Len(v) + 1

C11_Witness ==
    /\ pPc = "parsed" /\ mem.fuel = -1 /\ pRnt /\ pRoot = NULL
    /\ pText = Digit(1) \o <<ch.dot>> \o Digit(5)
    /\ ErrOut = 2

\* the tree at c is the shape sh: kinds, values, the number and the order of
\* the children as cy_p64_cJSON_GetArraySize and cy_p64_cJSON_GetArrayItem
\* give them, and the names of members
RECURSIVE Matches(_, _, _)
Matches(h, c, sh) ==
    /\ c # NULL
    /\ Kind(h.nodes[c].type) = sh.k
    /\ sh.k \in {cJSON_Number, cJSON_True} => h.nodes[c].valueint = sh.num
    /\ sh.k = cJSON_String => StrBytes(h, h.nodes[c].valuestring) = sh.str
    /\ sh.k \in {cJSON_Array, cJSON_Object} =>
          /\ cJSON_GetArraySize(h, c) = Len(sh.items)
          /\ \A i \in 1..Len(sh.items) :
                /\ Matches(h, cJSON_GetArrayItem(h, c, i - 1), sh.items[i])
                /\ sh.k = cJSON_Object =>
                      /\ h.nodes[cJSON_GetArrayItem(h, c, i - 1)].string # NULL
                      /\ StrBytes(h, h.nodes[cJSON_GetArrayItem(h, c, i - 1)].string)
                            = sh.names[i]
    /\ sh.k \notin {cJSON_Array, cJSON_Object} => h.nodes[c].child = NULL

\* the objects of a tree
ObjectsIn(h, c) == {o \in Subtree(h, c) : Kind(h.nodes[o].type) = cJSON_Object}

MembersOf(h, o) == Siblings(h, h.nodes[o].child, Cardinality(h.live))

\* the members in front of m
RECURSIVE Before(_, _)
Before(h, m) ==
    IF h.nodes[m].prev = NULL THEN {}
    ELSE {h.nodes[m].prev} \cup Before(h, h.nodes[m].prev)

ParsedShape(sh) ==
    pPc = "parsed" /\ mem.fuel = -1 /\ ~pRnt /\ pText = Render(sh)

\* C12 as stated: the text of an array or object of n elements parses to a
\* node of that kind with the n values as children in input order,
\* cy_p64_cJSON_GetArraySize gives n, cy_p64_cJSON_GetArrayItem(i) the i-th,
\* and cy_p64_cJSON_GetObjectItem(key) the member parsed with that key
C12_ParsedChildren ==
    \A sh \in Shapes :
        ParsedShape(sh) =>
            /\ Matches(mem, pRoot, sh)
            /\ \A o \in ObjectsIn(mem, pRoot) : \A m \in MembersOf(mem, o) :
                  cJSON_GetObjectItem(mem, o, StrBytes(mem, mem.nodes[m].string)) = m

\* C12, with the lookup that the code has: cy_p64_cJSON_GetObjectItem(key)
\* gives the first member whose name is the key up to the case of letters,
\* which is the member parsed with that key when no member in front of it
\* has such a name
C12_ParsedChildrenFirstMatch ==
    \A sh \in Shapes :
        ParsedShape(sh) =>
            /\ Matches(mem, pRoot, sh)
            /\ \A o \in ObjectsIn(mem, pRoot) : \A m \in MembersOf(mem, o) :
                  LET key == StrBytes(mem, mem.nodes[m].string)
                      found == cJSON_GetObjectItem(mem, o, key)
                  IN  /\ found \in MembersOf(mem, o)
                      /\ strcasecmp_eq(mem, mem.nodes[found].string, key)
                      /\ \A e \in Before(mem, found) :
                            ~strcasecmp_eq(mem, mem.nodes[e].string, key)
                      /\ (\A e \in Before(mem, m) :
                             ~strcasecmp_eq(mem, mem.nodes[e].string, key))
                            => found = m

C12_Witness ==
    /\ ParsedShape(ObjectOf(<< <<ch.a>>, <<ch.b>> >>,
              <<NumberOf(1), ArrayOf(<<Leaf(cJSON_True, <<1, 0>>, <<>>),
                                       Leaf(cJSON_False, <<0, 0>>, <<>>),
                                       Leaf(cJSON_NULL, <<0, 0>>, <<>>)>>)>>))
    /\ pRoot # NULL
    /\ cJSON_GetArraySize(mem, cJSON_GetObjectItem(mem, pRoot, <<ch.b>>)) = 3

\* arrays and objects up to a complete element or member
OpenArrays ==
    {<<ch.lbrack>> \o Digit(1),
     <<ch.lbrack>> \o Digit(1) \o <<ch.comma>> \o Digit(2),
     <<ch.lbrack>> \o Quoted(<<ch.a>>)}
OpenObjects ==
    {<<ch.lbrace>> \o Key(ch.a) \o Digit(1),
     <<ch.lbrace>> \o Key(ch.a) \o Quoted(<<ch.a>>)}
Blanks == {<<>>, <<ch.sp>>, <<ch.lf>>}

\* C13: a comma in an array followed, after optional whitespace, by ']', and
\* a comma in an object followed by '}', make the parse fail with the error
\* position at that closing bracket
C13_TrailingComma ==
    (pPc = "parsed" /\ mem.fuel = -1) =>
        /\ \A o \in OpenArrays, w \in Blanks :
              IsPrefix(o \o <<ch.comma>> \o w \o <<ch.rbrack>>, pText) =>
                  pRoot = NULL /\ ErrOut = Len(o) + Len(w) + 2
        /\ \A o \in OpenObjects, w \in Blanks :
              IsPrefix(o \o <<ch.comma>> \o w \o <<ch.rbrace>>, pText) =>
                  pRoot = NULL /\ ErrOut = Len(o) + Len(w) + 2

C13_Witness ==
    /\ pPc = "parsed" /\ mem.fuel = -1 /\ pRoot = NULL
    /\ \/ /\ pText = <<ch.lbrack>> \o Digit(1) \o <<ch.comma>> \o Digit(2)
                           \o <<ch.comma, ch.rbrack>>
          /\ ErrOut = 6
       \/ /\ pText = <<ch.lbrace>> \o Key(ch.a) \o Digit(1)
                           \o <<ch.comma, ch.lf, ch.rbrace>>
          /\ ErrOut = 9

\* C14: for a NUL-free byte string s, parsing the quoted text that
\* print_string_ptr gives for s succeeds, consumes exactly that text and
\* yields a String whose value is s byte for byte
C14_EscapeRoundTrip ==
    pPc = "string parsed" =>
        /\ pRoot2 # NULL
        /\ pEnd = Len(pPrinted) + 1
        /\ Kind(mem.nodes[pRoot2].type) = cJSON_String
        /\ mem.nodes[pRoot2].valuestring # NULL
        /\ StrBytes(mem, mem.nodes[pRoot2].valuestring) = pText

C14_Witness ==
    /\ pPc = "string parsed"
    /\ pText = <<31, ch.bslash>>
    /\ pPrinted = <<ch.quote, ch.bslash, ch.u, ch.zero, ch.zero, 49, ch.f,
                    ch.bslash, ch.bslash, ch.quote>>
    /\ pRoot2 # NULL

\* C15: cy_p64_cJSON_Minify is idempotent: a second call on the result of
\* a first leaves the text unchanged (stated for the texts on which neither
\* call reads behind the terminator)
C15_MinifyIdempotent ==
    (minPc = "twice" /\ ~minOut.ub /\ ~minAgain.ub) => minAgain.text = minOut.text

\* C27: cy_p64_cJSON_Minify never reads or writes behind the terminating NUL
\* of its input, whatever the text, and leaves a text no longer than the
\* input.
C27_MinifyInBounds ==
    minPc = "once"
        => /\ ~minOut.ub
           /\ Len(minOut.text) <= Len(minText)

---------------------------------------------------------------------------
(* Claims about the printing entry points                                  *)

\* the string a print function of the allocating printer returned
StringOf(r) == StrBytes(r.h, r.p)

\* the output the printer produces for the tree at pRoot when every
\* allocation succeeds
PrinterOutput(fmt) == StringOf(print_value_m(Fuelled(-1), pRoot, 0, fmt))

HasOutput(fmt) == print_value_m(Fuelled(-1), pRoot, 0, fmt).p # NULL

\* the number of bytes of that output, terminator included
OutputBytes(fmt) == Len(PrinterOutput(fmt)) + 1

\* C16: cy_p64_cJSON_PrintPreallocated returns failure when the buffer is one
\* byte shorter than the output of the printer for the tree and the format
\* flag, terminator included.
C16_PreallocatedTooShort ==
    (/\ pPc = "printed" /\ prCall.fn = "PrintPreallocated"
     /\ HasOutput(prCall.fmt)
     /\ prCall.size = OutputBytes(prCall.fmt) - 1)
        => ~prRet.ok

\* the object with a number and an array of three literals was printed
\* formatted into a buffer one byte too short, and the call failed
C16_Witness ==
    /\ pPc = "printed" /\ prCall.fn = "PrintPreallocated" /\ prCall.fmt
    /\ pRoot # NULL /\ Kind(mem.nodes[pRoot].type) = cJSON_Object
    /\ cJSON_GetArraySize(mem, pRoot) = 2
    /\ HasOutput(TRUE)
    /\ prCall.size = OutputBytes(TRUE) - 1
    /\ ~prRet.ok

\* C17: when cy_p64_cJSON_Print, cy_p64_cJSON_PrintUnformatted or
\* cy_p64_cJSON_PrintBuffered returns failure, whatever the item and wherever
\* an allocation failed, every block allocated during the call has been
\* released: the allocated blocks are those from before the call.
C17_PrintFailureReleases ==
    (/\ pPc = "printed"
     /\ prCall.fn \in {"Print", "PrintUnformatted", "PrintBuffered"}
     /\ ~prRet.ok)
        => mem.slive = prRet.before /\ mem.fault = "none"

\* what the allocating printer returns for the tree at pRoot on the heap as
\* it was before the printing call, when every allocation succeeds
Reference(fmt) ==
    print_value_m([Fuelled(-1) EXCEPT !.slive = prRet.before], pRoot, 0, fmt)

\* C25: the text cy_p64_cJSON_PrintBuffered returns, for every prebuffer, and
\* the text cy_p64_cJSON_PrintPreallocated leaves in the buffer when it
\* succeeds, are byte for byte the text cy_p64_cJSON_Print (fmt = 1) or
\* cy_p64_cJSON_PrintUnformatted (fmt = 0) returns for the same tree; and
\* cy_p64_cJSON_PrintBuffered succeeds whenever they do and no allocation
\* fails.
C25_PrintersAgree ==
    /\ (/\ pPc = "printed"
        /\ prCall.fn \in {"PrintBuffered", "PrintPreallocated"}
        /\ prRet.ok)
           => /\ Reference(prCall.fmt).p # NULL
              /\ prRet.text = StringOf(Reference(prCall.fmt))
    /\ (/\ pPc = "printed" /\ prCall.fn = "PrintBuffered" /\ prCall.fuel = -1
        /\ Reference(prCall.fmt).p # NULL)
           => prRet.ok

\* an object in an object in an object, the innermost one empty, was printed
\* formatted by cy_p64_cJSON_PrintBuffered from a prebuffer of 0
C25_Witness ==
    /\ pPc = "printed" /\ prCall.fn = "PrintBuffered" /\ prCall.fmt
    /\ prCall.size = 0 /\ prRet.ok
    /\ pRoot # NULL /\ Kind(mem.nodes[pRoot].type) = cJSON_Object
    /\ mem.nodes[pRoot].child # NULL
    /\ Kind(mem.nodes[mem.nodes[pRoot].child].type) = cJSON_Object
    /\ mem.nodes[mem.nodes[pRoot].child].child # NULL
    /\ Kind(mem.nodes[mem.nodes[mem.nodes[pRoot].child].child].type) = cJSON_Object
    /\ mem.nodes[mem.nodes[mem.nodes[pRoot].child].child].child = NULL
    /\ prRet.text = StringOf(Reference(TRUE))

\* C26: during cy_p64_cJSON_PrintPreallocated(item, buf, len, fmt) every byte
\* stored lies within the first len bytes of buf, whether the call succeeds
\* or fails, and the call allocates nothing and releases nothing.
C26_PreallocatedInBounds ==
    (pPc = "printed" /\ prCall.fn = "PrintPreallocated")
        => /\ prRet.top <= prCall.size
           /\ mem.slive = prRet.before
           /\ mem.log = <<>>
           /\ mem.fault = "none"

\* a call filled the buffer to its last byte and then failed for want of room
C26_Witness ==
    /\ pPc = "printed" /\ prCall.fn = "PrintPreallocated"
    /\ ~prRet.ok
    /\ prCall.size > 0
    /\ prRet.top = prCall.size

---------------------------------------------------------------------------
(* Claims about names, references and copies                               *)

\* the children of a container from c on, in order, at most k of them
RECURSIVE ChildList(_, _, _)
ChildList(h, c, k) ==
    IF c = NULL \/ k = 0 \/ c \notin h.live THEN <<>>
    ELSE <<c>> \o ChildList(h, h.nodes[c].next, k - 1)

ChildrenOf(h, a) == ChildList(h, h.nodes[a].child, Cardinality(h.live))

\* C18: when an allocation of cy_p64_cJSON_AddItemToObject,
\* cy_p64_cJSON_AddItemReferenceToArray or cy_p64_cJSON_AddItemReferenceToObject
\* fails, the call accesses no missing node, leaves the children of the target
\* container as they were and leaves no block allocated that was not allocated
\* before.
C18_AddRollback ==
    [][(/\ op'[1] \in {"AddItemToObject", "AddItemReferenceToArray",
                       "AddItemReferenceToObject"}
        /\ op'[3])
          => /\ mem'.fault = "none"
             /\ ChildrenOf(mem', op'[2]) = ChildrenOf(mem, op'[2])
             /\ mem'.live \subseteq mem.live
             /\ mem'.slive \subseteq mem.slive]_vars

\* the live nodes that have a name
Named(h) == {c \in h.live : h.nodes[c].string # NULL}

\* a name is the caller's string: borrowed, not duplicated by the engine
Borrowed(h, c) == h.nodes[c].string < 0

\* C19: after any sequence of AddItemToObject, AddItemToObjectCS,
\* DetachItemFromObject, ReplaceItemInObject and Duplicate a node carries
\* StringIsConst iff its name is a borrowed string of the caller; every name
\* the engine duplicated is allocated and the name of exactly one node; a
\* Delete releases no borrowed name and no block twice, and once every tree
\* is deleted no duplicated name is left allocated.
C19_NameOwnership ==
    /\ \A c \in Named(mem) :
          HasFlag(mem.nodes[c].type, cJSON_StringIsConst) <=> Borrowed(mem, c)
    /\ \A c \in Named(mem) :
          ~Borrowed(mem, c) =>
              /\ mem.nodes[c].string \in mem.slive
              /\ \A d \in Named(mem) \ {c} : mem.nodes[d].string # mem.nodes[c].string
    /\ op[1] = "Delete" => mem.fault = "none" /\ OnceEach(mem.log)
    /\ (mem.fault = "none" /\ mem.live = {}) => mem.slive = {}

\* the nodes from c on and everything below them, references followed
RECURSIVE ReachFrom(_, _)
ReachFrom(h, c) ==
    IF c = NULL THEN {}
    ELSE {c} \cup ReachFrom(h, h.nodes[c].next) \cup ReachFrom(h, h.nodes[c].child)

\* a node and everything below it
Below(h, c) == {c} \cup ReachFrom(h, h.nodes[c].child)

\* the heap strings the nodes of S point at
HeapStrings(h, S) ==
    {x \in {h.nodes[c].valuestring : c \in S} \cup {h.nodes[c].string : c \in S} :
        x > 0}

\* b holds what a holds: the type without IsReference, the number, the text
\* and the name in strings of its own, a borrowed name as it is
CopiedNode(h, a, b) ==
    /\ a # b
    /\ h.nodes[b].type = ClearFlag(h.nodes[a].type, cJSON_IsReference)
    /\ h.nodes[b].valueint = h.nodes[a].valueint
    /\ IF h.nodes[a].valuestring = NULL THEN h.nodes[b].valuestring = NULL
       ELSE /\ h.nodes[b].valuestring \notin {NULL, h.nodes[a].valuestring}
            /\ StrBytes(h, h.nodes[b].valuestring) = StrBytes(h, h.nodes[a].valuestring)
    /\ IF h.nodes[a].string = NULL THEN h.nodes[b].string = NULL
       ELSE /\ h.nodes[b].string # NULL
            /\ StrBytes(h, h.nodes[b].string) = StrBytes(h, h.nodes[a].string)

\* the list from b on is, node by node and in order, a deep copy of the list
\* from a on; prev is the copy in front of b
RECURSIVE CopiedList(_, _, _, _)
CopiedList(h, a, b, prev) ==
    IF a = NULL \/ b = NULL THEN a = b
    ELSE /\ CopiedNode(h, a, b)
         /\ h.nodes[b].prev = prev
         /\ CopiedList(h, h.nodes[a].child, h.nodes[b].child, NULL)
         /\ CopiedList(h, h.nodes[a].next, h.nodes[b].next, b)

\* C20: cy_p64_cJSON_Duplicate(item, recurse) returns a new node with next and
\* prev NULL and without IsReference, whatever links and flags the source has;
\* without recursion the copy has no children, with recursion its children are
\* deep copies of the children of the source, in their order, and the copy
\* shares no node and no string of the heap with the source.
C20_Duplicate ==
    (op[1] = "Duplicate" /\ op[4] # NULL)
        => /\ op[4] \in mem.live /\ CopiedNode(mem, op[2], op[4])
           /\ mem.nodes[op[4]].next = NULL /\ mem.nodes[op[4]].prev = NULL
           /\ ~HasFlag(mem.nodes[op[4]].type, cJSON_IsReference)
           /\ ~op[3] => mem.nodes[op[4]].child = NULL
           /\ op[3] =>
                 /\ CopiedList(mem, mem.nodes[op[2]].child, mem.nodes[op[4]].child, NULL)
                 /\ Below(mem, op[2]) \cap Below(mem, op[4]) = {}
                 /\ HeapStrings(mem, Below(mem, op[2]))
                        \cap HeapStrings(mem, Below(mem, op[4])) = {}

\* the root of a tree with a container among at least two children, a node
\* with a borrowed name or a reference among them, was duplicated with its
\* children
C20_Witness ==
    /\ op[1] = "Duplicate" /\ op[4] # NULL /\ op[3] /\ op[2] = pRoot
    /\ Len(ChildrenOf(mem, op[4])) >= 2
    /\ \E c \in Below(mem, op[2]) \ {op[2]} : mem.nodes[c].child # NULL
    /\ \E c \in Below(mem, op[2]) :
          \/ HasFlag(mem.nodes[c].type, cJSON_IsReference)
          \/ HasFlag(mem.nodes[c].type, cJSON_StringIsConst)

---------------------------------------------------------------------------
(* Claims about the editing of child lists                                 *)

\* C21: cy_p64_cJSON_InsertItemInArray(array, which, newitem) on an array
\* holding e0..e(n-1): for 0 <= which < n the array afterwards holds
\* e0..e(which-1), newitem, e(which)..e(n-1); for which >= n newitem is
\* appended at the end; in both cases the size grows by exactly one.
C21_InsertShifts ==
    [][(op'[1] = "InsertItemInArray" /\ op'[3] >= 0)
          => LET array == op'[2]
                 which == op'[3]
                 newitem == op'[4]
                 e == ChildrenOf(mem, array)
                 n == Len(e)
             IN  /\ cJSON_GetArraySize(mem, array) = n
                 /\ ChildrenOf(mem', array) =
                       IF which < n
                       THEN SubSeq(e, 1, which) \o <<newitem>> \o SubSeq(e, which + 1, n)
                       ELSE Append(e, newitem)
                 /\ cJSON_GetArraySize(mem', array) = n + 1]_vars

\* an item was inserted between two others
C21_Witness ==
    /\ op[1] = "InsertItemInArray" /\ op[3] = 1
    /\ Len(ChildrenOf(mem, op[2])) = 3
    /\ ChildrenOf(mem, op[2])[2] = op[4]

\* the position, from 1, of the first node of list whose name is key without
\* regard to case, 0 when there is none
FirstNamed(h, list, key) ==
    LET hits == {i \in 1..Len(list) : strcasecmp_eq(h, h.nodes[list[i]].string, key)}
    IN  IF hits = {} THEN 0 ELSE MinOf(hits)

\* what a node holds apart from its links to its siblings
Payload(h, c) ==
    [type |-> h.nodes[c].type, valueint |-> h.nodes[c].valueint,
     child |-> h.nodes[c].child,
     valuestring |-> IF h.nodes[c].valuestring = NULL THEN <<"none">>
                     ELSE <<"str", StrBytes(h, h.nodes[c].valuestring)>>,
     string |-> IF h.nodes[c].string = NULL THEN <<"none">>
                ELSE <<"str", StrBytes(h, h.nodes[c].string)>>]

\* C22: cy_p64_cJSON_ReplaceItemInArray with an index in range and
\* cy_p64_cJSON_ReplaceItemInObject with a matching member put newitem at the
\* position of the old element, delete the old element and only it, and leave
\* the size, the other elements and their order as they were; with an index
\* out of range or no matching member the heap is left as it was, newitem
\* neither linked nor released.
C22_ReplaceInPlace ==
    [][(op'[1] \in {"ReplaceItemInArray", "ReplaceItemInObject"})
          => LET array == op'[2]
                 newitem == op'[4]
                 e == ChildrenOf(mem, array)
                 pos == IF op'[1] = "ReplaceItemInArray" THEN op'[3] + 1
                        ELSE FirstNamed(mem, e, op'[3])
             IN  IF pos \in 1..Len(e)
                 THEN /\ mem'.fault = "none"
                      /\ ChildrenOf(mem', array) = [e EXCEPT ![pos] = newitem]
                      /\ WellLinked(mem', array)
                      /\ mem'.live = mem.live \ Subtree(mem, e[pos])
                      /\ \A i \in (1..Len(e)) \ {pos} :
                            Payload(mem', e[i]) = Payload(mem, e[i])
                 ELSE mem' = mem]_vars

\* an element that has both neighbours was replaced in an array, or a member
\* that is not the first one in an object
C22_Witness ==
    /\ op[1] \in {"ReplaceItemInArray", "ReplaceItemInObject"}
    /\ Len(ChildrenOf(mem, op[2])) = 3
    /\ ChildrenOf(mem, op[2])[2] = op[4]

\* C23: cy_p64_cJSON_GetArrayItem(array, i) returns the i-th child for
\* 0 <= i < size and NULL for every other index, negative ones included.
C23_GetArrayItemRange ==
    op[1] = "GetArrayItem"
        => LET e == ChildrenOf(mem, op[2])
               i == op[3]
           IN  op[4] = IF 0 <= i /\ i < Len(e) THEN e[i + 1] ELSE NULL

---------------------------------------------------------------------------
(* Claims about the allocator                                              *)

\* the blocks of the list from b on, at most k of them
RECURSIVE BlocksFrom(_, _, _)
BlocksFrom(h, b, k) ==
    IF b = NULL \/ k = 0 THEN <<>>
    ELSE <<b>> \o BlocksFrom(h, Rd(h, b + off_next), k - 1)

\* the list of blocks of a pool
Blocks(h) == BlocksFrom(h, h.base, HeapWords + 1)

SizeOf(h, b) == Rd(h, b + off_size)
DataOf(b) == b + CY_P64_META_DATA_SIZE
EndOf(h, b) == DataOf(b) + SizeOf(h, b)
IsFree(h, b) == Rd(h, b + off_free_ptr) = NULL
HeapEnd == cy_p64_heap_buffer + CY_P64_HEAP_DATA_SIZE

\* a request for more bytes than the heap has
BeyondHeap(size) == size[2] > 0 \/ size[1] > CY_P64_HEAP_DATA_SIZE

\* C24: cy_p64_malloc(size) returns NULL for every request larger than the
\* heap, for every 32-bit size, and every pointer it returns designates at
\* least size bytes of one block that lie inside the heap buffer.
C24_MallocFits ==
    hcall[1] = "malloc"
        => LET size == hcall[2]
               p == hcall[3]
           IN  /\ BeyondHeap(size) => p = NULL
               /\ p # NULL =>
                     /\ size[2] = 0
                     /\ cy_p64_get_block(p) \in {Blocks(pool)[i] : i \in 1..Len(Blocks(pool))}
                     /\ SizeOf(pool, cy_p64_get_block(p)) >= size[1]
                     /\ p >= cy_p64_heap_buffer
                     /\ p + size[1] <= HeapEnd

C29_CoalescedAndEmptied ==
    LET bl == Blocks(pool)
        n == Len(bl)
    IN  /\ \A i \in 1..n - 1 : ~(IsFree(pool, bl[i]) /\ IsFree(pool, bl[i + 1]))
        /\ n > 0 => ~IsFree(pool, bl[n])
        /\ (hcall[1] = "free" /\ held = {})
              => pool.base = NULL /\ pool.shm_break = cy_p64_heap_buffer

\* the data pointers of the allocated blocks
Allocated(h) ==
    {DataOf(Blocks(h)[i]) : i \in {k \in 1..Len(Blocks(h)) : ~IsFree(h, Blocks(h)[k])}}

\* C30: cy_p64_free called with NULL, with an address outside the used part
\* of the heap, with an address that is not the data pointer of a block or
\* with the pointer of a block that is free leaves the whole pool as it was.
C30_FreeValidates ==
    [][(hcall'[1] = "free" /\ hcall'[2] \notin Allocated(pool)) => pool' = pool]_vars

---------------------------------------------------------------------------
(* Specifications                                                          *)

InitHeap ==
    /\ HeapInit /\ NumIdle /\ UtfIdle /\ TreeIdle /\ ParseIdle /\ MinIdle /\ PrintIdle
    /\ OwnIdle
NextHeap ==
    \/ \E size \in MallocSizes : HMalloc(size)
    \/ \E nelem \in CallocCounts, elsize \in CallocSizes : HCalloc(nelem, elsize)
    \/ \E p \in Addresses : HWrite(p)
    \/ \E p \in Addresses \cup {NULL} : HFree(p)
SpecHeap == InitHeap /\ [][NextHeap]_vars

NextFree ==
    \/ \E size \in MallocSizes : HMalloc(size)
    \/ \E p \in Addresses : HWrite(p)
    \/ \E p \in Addresses \cup {NULL} : HFreeAny(p)
SpecFree == InitHeap /\ [][NextFree]_vars

InitEdit == EditInit /\ NumIdle /\ UtfIdle /\ ParseIdle /\ MinIdle /\ PrintIdle /\ OwnIdle /\ HeapIdle
NextEdit ==
    \/ ECreateObject
    \/ \E a, x \in Cells : EAddItemToArray(a, x)
    \/ \E a, x \in Cells, key \in EditKeys : EAddItemToObject(a, key, x)
    \/ \E a, x \in Cells, which \in EditIndices : EInsertItemInArray(a, which, x)
    \/ \E a, x \in Cells, which \in EditIndices : EReplaceItemInArray(a, which, x)
    \/ \E a, x \in Cells, key \in EditLookupKeys : EReplaceItemInObject(a, key, x)
    \/ \E a \in Cells, i \in EditIndices : EGetArrayItem(a, i)
SpecEdit == InitEdit /\ [][NextEdit]_vars

InitNum == NumInit /\ UtfIdle /\ TreeIdle /\ ParseIdle /\ MinIdle /\ PrintIdle /\ OwnIdle /\ HeapIdle
NextNum == (\E c \in NumAlphabet : NumAppend(c)) \/ NumParse
SpecNum == InitNum /\ [][NextNum]_vars

InitUtf == UtfInit /\ NumIdle /\ TreeIdle /\ ParseIdle /\ MinIdle /\ PrintIdle /\ OwnIdle /\ HeapIdle
NextUtf == UtfConvert
SpecUtf == InitUtf /\ [][NextUtf]_vars

Init == TreeInit /\ NumIdle /\ UtfIdle /\ ParseIdle /\ MinIdle /\ PrintIdle /\ OwnIdle /\ HeapIdle
Next ==
    \/ TCreateObject
    \/ \E b \in StringValues : TCreateString(b)
    \/ \E a, x \in Cells : TAddItemToArray(a, x)
    \/ \E a, x \in Cells, key \in AddKeys : TAddItemToObject(a, key, x)
    \/ \E a, x \in Cells, k \in 1..Len(ConstStrings) : TAddItemToObjectCS(a, k, x)
    \/ \E a, x \in Cells : TAddItemReferenceToArray(a, x)
    \/ \E c \in Cells : TDelete(c)
Spec == Init /\ [][Next]_vars

InitLinks == LinksInit /\ NumIdle /\ UtfIdle /\ ParseIdle /\ MinIdle /\ PrintIdle /\ OwnIdle /\ HeapIdle
NextLinks ==
    \/ TCreateObject
    \/ \E a, x \in Cells : TAddItemToArray(a, x)
    \/ \E a, x \in Cells, key \in AddKeys : TAddItemToObject(a, key, x)
    \/ \E a \in Cells, which \in -1..LinkNodes : TDetachItemFromArray(a, which)
    \/ \E a \in Cells, key \in LookupKeys : TDetachItemFromObject(a, key)
    \/ \E a \in Cells, which \in -1..LinkNodes : TDeleteItemFromArray(a, which)
    \/ \E a \in Cells, key \in LookupKeys : TDeleteItemFromObject(a, key)
    \/ \E a, x \in Cells, which \in -1..LinkNodes : TInsertItemInArray(a, which, x)
    \/ \E a, x \in Cells, which \in -1..LinkNodes : TReplaceItemInArray(a, which, x)
    \/ \E a, x \in Cells, key \in LookupKeys : TReplaceItemInObject(a, key, x)
    \/ \E c \in Cells : TDelete(c)
SpecLinks == InitLinks /\ [][NextLinks]_vars

InitParse == ParseInit /\ NumIdle /\ UtfIdle /\ MinIdle /\ PrintIdle /\ OwnIdle /\ HeapIdle
NextParse ==
    \/ PParse
    \/ \E b \in BuildItems : PCreate(b)
    \/ \E b \in BuildItems, named \in BOOLEAN : PAdd(b, named)
    \/ PRoundTrip
SpecParse == InitParse /\ [][NextParse]_vars

InitErr == ErrInit /\ NumIdle /\ UtfIdle /\ MinIdle /\ PrintIdle /\ OwnIdle /\ HeapIdle
NextErr ==
    \/ \E text \in ErrTexts, rpe, rnt \in BOOLEAN : EParse(text, rpe, rnt)
    \/ ERelease
SpecErr == InitErr /\ [][NextErr]_vars

InitStr == StrInit /\ NumIdle /\ UtfIdle /\ MinIdle /\ PrintIdle /\ OwnIdle /\ HeapIdle
NextStr == SPrint \/ SParse
SpecStr == InitStr /\ [][NextStr]_vars

InitMin == MinInit /\ NumIdle /\ UtfIdle /\ TreeIdle /\ ParseIdle /\ PrintIdle /\ OwnIdle /\ HeapIdle
NextMin == MinifyOnce \/ MinifyAgain
SpecMin == InitMin /\ [][NextMin]_vars

InitPrint == PrintInit /\ NumIdle /\ UtfIdle /\ MinIdle /\ OwnIdle /\ HeapIdle
NextPrint ==
    \/ PParse
    \/ \E b \in BuildItems : PCreate(b)
    \/ \E b \in BuildItems, named \in BOOLEAN : PAdd(b, named)
    \/ \E fuel \in {-1} \cup 0..MaxPrintFuel : PrPrint(fuel)
    \/ \E fuel \in {-1} \cup 0..MaxPrintFuel : PrPrintUnformatted(fuel)
    \/ \E prebuffer \in Prebuffers, fmt \in BOOLEAN,
          fuel \in {-1} \cup 0..MaxPrintFuel : PrPrintBuffered(prebuffer, fmt, fuel)
    \/ \E len \in 0..MaxBuf, fmt \in BOOLEAN : PrPrintPreallocated(len, fmt)
SpecPrint == InitPrint /\ [][NextPrint]_vars

InitOwn == OwnInit /\ NumIdle /\ UtfIdle /\ ParseIdle /\ MinIdle /\ PrintIdle /\ HeapIdle
NextOwn ==
    \/ OCreateObject
    \/ \E a, x \in Cells, key \in AddKeys, fuel \in OwnFuels :
          OAddItemToObject(a, key, x, fuel)
    \/ \E a, x \in Cells, k \in 1..Len(ConstStrings) : OAddItemToObjectCS(a, k, x)
    \/ \E a, x \in Cells, fuel \in OwnFuels : OAddItemReferenceToArray(a, x, fuel)
    \/ \E a, x \in Cells, key \in AddKeys, fuel \in OwnFuels :
          OAddItemReferenceToObject(a, key, x, fuel)
    \/ \E a \in Cells, key \in OwnLookupKeys : ODetachItemFromObject(a, key)
    \/ \E a, x \in Cells, key \in OwnLookupKeys : OReplaceItemInObject(a, key, x)
    \/ \E c \in Cells, recurse \in BOOLEAN, fuel \in OwnFuels :
          ODuplicate(c, recurse, fuel)
    \/ \E c \in Cells : ODelete(c)
SpecOwn == InitOwn /\ [][NextOwn]_vars

InitDup == DupInit /\ NumIdle /\ UtfIdle /\ MinIdle /\ OwnIdle /\ HeapIdle
NextDup ==
    \/ PParse
    \/ \E b \in BuildItems : PCreate(b)
    \/ \E b \in BuildItems, named \in BOOLEAN : PAdd(b, named)
    \/ \E b \in BuildItems, k \in 1..Len(ConstStrings) : DAddItemToObjectCS(b, k)
    \/ \E c \in Cells : DAddItemReferenceToArray(c)
    \/ \E c \in Cells, recurse \in BOOLEAN, fuel \in {-1} \cup 0..MaxDupFuel :
          DDuplicate(c, recurse, fuel)
SpecDup == InitDup /\ [][NextDup]_vars

=============================================================================
